---- MODULE Spec2Model ----
(***************************************************************************)
(* tcsss: the traffic-shaping reconciler (Shaper), its worker pool, the    *)
(* netlink watcher with its PendingChanges accumulator, and Daemon.Run.    *)
(*                                                                         *)
(* The kernel (links, their MTU / queue length / UP flag) is part of the   *)
(* state; every external command and netlink call of the code is a step    *)
(* that either takes effect or fails.                                      *)
(***************************************************************************)
EXTENDS Naturals, Integers, Sequences, FiniteSets, TLC

\* ------------------------------------------------------------------ bounds

\* Commands / netlink calls that may fail in one behaviour.
MaxFailures == 1
\* Modelled capacity of each netlink subscription channel (32 in the code).
MaxChan == 1
MaxCount == 2
\* Calls of Classify in one behaviour of the classifier on its own.
MaxCalls == 3

\* ------------------------------------------------------- program constants

IfbPrefix == "ifb4"
IngressHandle == "ffff:"
defaultWorkerCount == 4
IfNameMax == 15
MinMTU == 68
MaxMTU == 65535
MinQueueLen == 1
MaxQueueLen == 1000000
defaultQueueLen == 10001
defaultLoopbackQueue == 10000
defaultLoopbackMTU == 65520

\* ------------------------------------------------------------ strings

HasPrefix(s, p) == Len(s) >= Len(p) /\ SubSeq(s, 1, Len(p)) = p

\* strings.Contains
Contains(s, sub) ==
    \E i \in 1..(Len(s) + 1) :
        i + Len(sub) - 1 <= Len(s) /\ SubSeq(s, i, i + Len(sub) - 1) = sub

UpperChars == "ABCDEFGHIJKLMNOPQRSTUVWXYZ"
LowerChars == "abcdefghijklmnopqrstuvwxyz"

LowerChar(c) ==
    IF \E i \in 1..Len(UpperChars) : SubSeq(UpperChars, i, i) = c
    THEN LET i == CHOOSE j \in 1..Len(UpperChars) : SubSeq(UpperChars, j, j) = c
         IN  SubSeq(LowerChars, i, i)
    ELSE c

\* strings.ToLower (ASCII)
RECURSIVE ToLower(_)
ToLower(s) ==
    IF Len(s) = 0 THEN "" ELSE LowerChar(SubSeq(s, 1, 1)) \o ToLower(SubSeq(s, 2, Len(s)))

\* strings.Split(s, sep) for a one-character separator.
RECURSIVE SplitFrom(_, _, _)
SplitFrom(s, sep, cur) ==
    IF Len(s) = 0 THEN <<cur>>
    ELSE IF SubSeq(s, 1, 1) = sep
         THEN <<cur>> \o SplitFrom(SubSeq(s, 2, Len(s)), sep, "")
         ELSE SplitFrom(SubSeq(s, 2, Len(s)), sep, cur \o SubSeq(s, 1, 1))

Split(s, sep) == SplitFrom(s, sep, "")

DigitChars == <<"0", "1", "2", "3", "4", "5", "6", "7", "8", "9">>

\* strconv.Itoa / fmt.Sprintf("%d") for a non-negative integer.
RECURSIVE Itoa(_)
Itoa(n) ==
    IF n < 10 THEN DigitChars[n + 1]
    ELSE Itoa(n \div 10) \o DigitChars[(n % 10) + 1]

IsDigit(c) == \E d \in 1..10 : DigitChars[d] = c

DigitVal(c) == (CHOOSE d \in 1..10 : DigitChars[d] = c) - 1

\* strconv.Atoi succeeds exactly on a non-empty string of decimal digits
\* (the model's strings carry no sign).
AtoiOk(s) == Len(s) > 0 /\ \A i \in 1..Len(s) : IsDigit(SubSeq(s, i, i))

RECURSIVE AtoiVal(_)
AtoiVal(s) ==
    IF Len(s) = 0 THEN 0
    ELSE AtoiVal(SubSeq(s, 1, Len(s) - 1)) * 10 + DigitVal(SubSeq(s, Len(s), Len(s)))

\* strings.Join(tokens, sep)
RECURSIVE Join(_, _)
Join(tokens, sep) ==
    IF Len(tokens) = 0 THEN ""
    ELSE IF Len(tokens) = 1 THEN tokens[1]
    ELSE tokens[1] \o sep \o Join(Tail(tokens), sep)

\* Byte order of the characters that occur in offload pairs.
CharOrder == "-0123456789=_abcdefghijklmnopqrstuvwxyz"

CharRank(c) == CHOOSE i \in 1..Len(CharOrder) : SubSeq(CharOrder, i, i) = c

\* a < b in Go's string order (byte-wise lexicographic).
RECURSIVE StrLess(_, _)
StrLess(a, b) ==
    IF Len(b) = 0 THEN FALSE
    ELSE IF Len(a) = 0 THEN TRUE
    ELSE LET ca == CharRank(SubSeq(a, 1, 1))
             cb == CharRank(SubSeq(b, 1, 1))
         IN  IF ca < cb THEN TRUE
             ELSE IF ca > cb THEN FALSE
             ELSE StrLess(SubSeq(a, 2, Len(a)), SubSeq(b, 2, Len(b)))

\* sort.Strings: insertion of x into an ascending sequence, then the sort.
RECURSIVE InsertSorted(_, _)
InsertSorted(x, seq) ==
    IF Len(seq) = 0 THEN <<x>>
    ELSE IF StrLess(seq[1], x) THEN <<seq[1]>> \o InsertSorted(x, Tail(seq))
    ELSE <<x>> \o seq

\* A sort that leaves the slice as it is.
SortNothing(seq) == seq

RECURSIVE SortStrings(_)
SortStrings(seq) ==
    IF Len(seq) = 0 THEN <<>>
    ELSE InsertSorted(seq[1], SortStrings(Tail(seq)))

\* ------------------------------------------------------------ IFB names

\* An IFB name that is never cut.
truncateIfbNever(name) == name

truncateIfb(name) == IF Len(name) <= IfNameMax THEN name ELSE SubSeq(name, 1, IfNameMax)

ifbNameOf(iface) == truncateIfb(IfbPrefix \o iface)

\* ------------------------------------------------------------ profiles

offloadPrefix ==
    << <<"rx", "on">>, <<"tx", "on">>, <<"sg", "off">>, <<"tso", "off">>, <<"gso", "off">> >>

offloadSuffix ==
    << <<"lro", "off">>, <<"ufo", "off">>, <<"rx-checksum", "on">>, <<"tx-checksum", "on">>,
       <<"tx-scatter-gather", "off">>, <<"tx-gso-partial", "off">> >>

offloadsWithGro(state) == offloadPrefix \o << <<"gro", state>> >> \o offloadSuffix

internalRTT == "100us"
loopbackRTT == "20us"

internalRootQdisc ==
    <<"cake", "unlimited", "rtt", internalRTT, "besteffort", "dual-srchost",
      "nonat", "nowash", "no-split-gso", "ack-filter", "raw", "egress">>
internalIfbQdisc ==
    <<"cake", "unlimited", "rtt", internalRTT, "diffserv4", "dual-dsthost",
      "nonat", "nowash", "no-split-gso", "no-ack-filter", "raw", "ingress">>
externalRootQdisc ==
    <<"cake", "unlimited", "besteffort", "dual-srchost", "nonat",
      "nowash", "no-split-gso", "ack-filter", "ethernet", "egress">>
externalIfbQdisc ==
    <<"cake", "unlimited", "diffserv4", "dual-dsthost", "nonat",
      "nowash", "no-split-gso", "no-ack-filter", "ethernet", "ingress">>
loopbackRootQdisc ==
    <<"cake", "unlimited", "rtt", loopbackRTT, "diffserv4", "dual-srchost",
      "nonat", "nowash", "no-split-gso", "ack-filter-aggressive", "raw", "egress">>
loopbackIfbQdisc ==
    <<"cake", "unlimited", "rtt", loopbackRTT, "diffserv4", "dual-dsthost",
      "nonat", "nowash", "no-split-gso", "no-ack-filter", "raw", "ingress">>

\* newProfileSet with the default settings (Settings.withDefaults).
newProfileSet ==
    [ internalVirtual |->
        [ queueLength |-> Itoa(defaultQueueLen), rootQdisc |-> internalRootQdisc,
          ifbQdisc |-> internalIfbQdisc, offloads |-> offloadsWithGro("off"),
          mtuOverride |-> "" ],
      externalVirtual |->
        [ queueLength |-> Itoa(defaultQueueLen), rootQdisc |-> externalRootQdisc,
          ifbQdisc |-> externalIfbQdisc, offloads |-> offloadsWithGro("off"),
          mtuOverride |-> "" ],
      externalPhysical |->
        [ queueLength |-> Itoa(defaultQueueLen), rootQdisc |-> externalRootQdisc,
          ifbQdisc |-> externalIfbQdisc, offloads |-> offloadsWithGro("on"),
          mtuOverride |-> "" ],
      loopback |->
        [ queueLength |-> Itoa(defaultLoopbackQueue), rootQdisc |-> loopbackRootQdisc,
          ifbQdisc |-> loopbackIfbQdisc, offloads |-> offloadsWithGro("off"),
          mtuOverride |-> Itoa(defaultLoopbackMTU) ] ]

\* ------------------------------------------------------------ signature

\* (feature names carry no blanks to trim)
normalizeSetFeatureName(name) ==
    LET lower == ToLower(name)
    IN  IF lower \in {"rx-checksum", "rx_checksum"} THEN "rx"
        ELSE IF lower \in {"tx-checksum", "tx_checksum"} THEN "tx"
        ELSE lower

offloadPairs(offloads) ==
    [i \in 1..Len(offloads) |->
        normalizeSetFeatureName(offloads[i][1]) \o "=" \o ToLower(offloads[i][2])]

makeSignature(mtu, qlen, profile) ==
    "mtu=" \o mtu \o ";qlen=" \o qlen
    \o ";root=" \o Join(profile.rootQdisc, ",")
    \o ";ifb=" \o Join(profile.ifbQdisc, ",")
    \o ";off=" \o (IF Len(profile.offloads) > 0
                   THEN Join(SortStrings(offloadPairs(profile.offloads)), ",")
                   ELSE "")

\* ------------------------------------------------------------ the host

\* Links the modelled host can have: base interfaces, their IFB mirrors and an
\* IFB left behind by an interface that no longer exists.
HostLinks == {"lo", "eth0", "br0"}
StaleIfbs == {"ifb4old"}
LinkOrder == <<"lo", "eth0", "br0", "ifb4lo", "ifb4eth0", "ifb4br0", "ifb4old">>
LinkNames == {LinkOrder[i] : i \in 1..Len(LinkOrder)}

\* The interface index of a link (its position in the kernel's list).
LinkIndex(name) == CHOOSE i \in 1..Len(LinkOrder) : LinkOrder[i] = name

IsLoopbackDev(name) == name = "lo"

\* Link indexes carrying a default route (IPv4, IPv6) in the route table.
DefaultRoutesV4 == {LinkIndex("eth0")}
DefaultRoutesV6 == {}

\* Names of the links handed to the classifier on its own.
ClassNames == {"lo", "docker0", "eth0", "ens3", "wg0", "tap0", "dummy0", ""}

\* An interface index no link has (an address update for a link that is gone).
UnknownIndex == Len(LinkOrder) + 1

\* sysfs facts of the host: resolved /sys/class/net/<name> path segments,
\* driver module and PCI vendor id ("" when the file is missing).
\* eth0 is an Intel NIC, ens3 a VirtIO NIC, every other link a virtual device.
SysfsResolved(name) ==
    IF name = "eth0" THEN "/sys/devices/pci0000:00/0000:00:03.0/net/eth0"
    ELSE IF name = "ens3" THEN "/sys/devices/pci0000:00/0000:00:04.0/virtio1/net/ens3"
    ELSE "/sys/devices/virtual/net/" \o name
SysfsDriver(name) ==
    IF name = "eth0" THEN "e1000e" ELSE IF name = "ens3" THEN "virtio_net" ELSE ""
SysfsVendor(name) ==
    IF name = "eth0" THEN "0x8086" ELSE IF name = "ens3" THEN "0x1af4" ELSE ""

\* Attributes of a freshly created IFB device.
NewIfb == [exists |-> TRUE, up |-> FALSE, mtu |-> 1500, qlen |-> 32, feat |-> FALSE]

NoSelector == [all |-> TRUE, names |-> {}]

\* Stands, in the name of a queued link update, for an update whose Link is nil.
NilLink == "<nil>"
NoLink == [name |-> ""]
\* A nil *netlink.LinkAttrs.
NilAttrs == [nil |-> TRUE]
NoSig == ""

\* ------------------------------------------------------------ classifier

internalVirtualPrefixes == <<"br", "docker", "veth", "virbr", "fwbr", "fwpr", "fwln", "tap">>
externalVirtualPrefixes ==
    <<"tun", "tap", "wg", "zt", "gre", "gretap", "sit", "vxlan", "macvlan", "macvtap", "ipvlan">>
virtualDriverModules ==
    {"ena", "gve", "hv_netvsc", "netvsc", "virtio_net", "virtio_pci", "vmxnet3"}
virtualVendorIDs == {"0x1414", "0x15ad", "0x1af4", "0x1d0f", "0x1ae0", "0x1ec1", "0x5853"}

hasInternalVirtualPrefix(name) ==
    \E i \in 1..Len(internalVirtualPrefixes) : HasPrefix(name, internalVirtualPrefixes[i])

hasExternalVirtualPrefix(name) ==
    \E i \in 1..Len(externalVirtualPrefixes) : HasPrefix(name, externalVirtualPrefixes[i])

isSysfsVirtualPath(resolvedPath) ==
    LET lower == ToLower(resolvedPath)
        segments == Split(lower, "/")
    IN  \/ Contains(lower, "/sys/devices/virtual/")
        \/ \E i \in 1..Len(segments) :
              \/ segments[i] = "virtio" \/ HasPrefix(segments[i], "virtio")
              \/ segments[i] = "vmbus"

\* normalizeIdentifier: trim (the host's values carry no blanks), lower-case,
\* hyphens to underscores.
RECURSIVE ReplaceChar(_, _, _)
ReplaceChar(s, from, to) ==
    IF Len(s) = 0 THEN ""
    ELSE (IF SubSeq(s, 1, 1) = from THEN to ELSE SubSeq(s, 1, 1))
         \o ReplaceChar(SubSeq(s, 2, Len(s)), from, to)

normalizeIdentifier(value) == ReplaceChar(ToLower(value), "-", "_")

detectVirtualHardware(name) ==
    \/ hasInternalVirtualPrefix(name)
    \/ hasExternalVirtualPrefix(name)
    \/ isSysfsVirtualPath(SysfsResolved(name))
    \/ (SysfsDriver(name) /= "" /\ normalizeIdentifier(SysfsDriver(name)) \in virtualDriverModules)
    \/ (SysfsVendor(name) /= "" /\ normalizeIdentifier(SysfsVendor(name)) \in virtualVendorIDs)

\* detectVirtualHardware of every name of the model, computed once.
VirtualHardwareTable == [n \in LinkNames \cup ClassNames |-> detectVirtualHardware(n)]

VARIABLES
    kernel,             \* [LinkNames -> [exists, up, mtu, qlen]]: the kernel's links
    failures,           \* commands / netlink calls that have failed so far
    cancelled,          \* the daemon's context is cancelled
    \* --- Shaper
    appliedSignatures,  \* [LinkNames -> signature or NoSig]
    didInitialCleanup,
    externalLinkIndexes,\* classifier: link indexes with a default route
    virtualCache,       \* classifier: [name -> "unset" | "yes" | "no"]
    lastRefreshZero,    \* classifier: lastRefresh.IsZero()
    \* --- one applyInterfaces activation
    running,            \* number of applyInterfaces activations in progress
    passPc, passCaller, only, passLinks, requiredIfbs,
    workCh,             \* links queued for the workers
    wk,                 \* [1..defaultWorkerCount -> worker record]
    errCh, statsCh,
    passResult,         \* what the last pass logged / returned
    \* --- Daemon.Run and Shaper.Watch
    runPc, watchPc,
    linkCh, addrCh,     \* subscription channels
    linkClosed, addrClosed,
    applyTick,          \* a tick waits in applyTicker.C
    pending,            \* PendingChanges: [all, names]
    snap,               \* applyPending's locals: [all, names]
    \* --- history (not read by the program)
    taken,              \* [LinkNames -> times taken from workCh in this pass]
    cfgRuns,            \* [LinkNames -> configureProfile calls in this pass]
    cmdLog,             \* [LinkNames -> commands configureProfile issued, this pass]
    outcome,            \* [LinkNames -> how the link's processing ended, this pass]
    lastRun,            \* [LinkNames -> how configureProfile last ended, any pass]
    pre,                \* [LinkNames -> was it configured and its IFB UP at entry]
    recorded,           \* events handed to AddLink/AddAddr in this drain cycle
    track,              \* the followed event: where it is, and its interface
    loopErrs,           \* a reapply pass or a cleanup tick of the watcher has failed
    \* --- added state of Shaper.Apply, applyPending and Watch
    optimizeErr,        \* Optimize returned an error to the Shaper.Apply in progress
    deadline,           \* the deadline of applyPending's ctxApply has passed
    subs,               \* netlinkSubscriptions: closeOnce and the two done-channels
    \* --- the call under study of the function specifications
    calc

vars == <<kernel, failures, cancelled, appliedSignatures, didInitialCleanup,
          externalLinkIndexes, virtualCache, lastRefreshZero,
          running, passPc, passCaller, only, passLinks, requiredIfbs,
          workCh, wk, errCh, statsCh, passResult,
          runPc, watchPc, linkCh, addrCh, linkClosed, addrClosed,
          applyTick, pending, snap,
          taken, cfgRuns, cmdLog, outcome, lastRun, pre, recorded, track,
          loopErrs, optimizeErr, deadline, subs, calc>>

\* The context a pass runs under is done: the daemon's context is cancelled, or
\* the deadline of context.WithTimeout(ctx, applyTimeout) has passed.
CtxDone == cancelled \/ deadline

Workers == 1..defaultWorkerCount

\* ------------------------------------------------------------ netlink views

\* link.Attrs() of an existing link, as LinkList / LinkByName return it.
AttrsOf(name) ==
    [ name |-> name, index |-> LinkIndex(name), mtu |-> kernel[name].mtu,
      qlen |-> kernel[name].qlen, up |-> kernel[name].up,
      loopback |-> IsLoopbackDev(name) ]

ExistingOrder == SelectSeq(LinkOrder, LAMBDA n : kernel[n].exists)

LinkList == [i \in 1..Len(ExistingOrder) |-> AttrsOf(ExistingOrder[i])]

LinkByNameFound(name) == name \in LinkNames /\ kernel[name].exists

SeqNames(links) == {links[i].name : i \in 1..Len(links)}

\* Outcomes a command run through the executor can have: a cancelled context
\* fails it; otherwise it may fail while the failure budget lasts.
CmdOutcomes ==
    IF CtxDone THEN {FALSE}
    ELSE IF failures < MaxFailures THEN {TRUE, FALSE} ELSE {TRUE}

\* Outcomes of a netlink call (no context is passed to netlink).
NlOutcomes == IF failures < MaxFailures THEN {TRUE, FALSE} ELSE {TRUE}

\* The failure budget after calls with the given outcomes.
Spent(outs) ==
    failures + Cardinality({i \in 1..Len(outs) : ~outs[i] /\ ~CtxDone})

SpentNl(outs) == failures + Cardinality({i \in 1..Len(outs) : ~outs[i]})

WithinBudget(n) == n <= MaxFailures

\* ------------------------------------------------------------ Classify

isVirtualInterface(name, vcache) ==
    IF name = "" THEN FALSE
    ELSE IF vcache[name] /= "unset" THEN vcache[name] = "yes"
    ELSE VirtualHardwareTable[name]

isExternalInterface(index, name, extIdx) ==
    \/ hasExternalVirtualPrefix(name)
    \/ (index > 0 /\ index \in extIdx)

\* A Classify that asks for external traffic before the skip prefixes.
ClassifySkipLast(attrs, vcache, extIdx) ==
    IF attrs = NilAttrs THEN "unknown"
    ELSE IF attrs.loopback THEN "loopback"
    ELSE IF attrs.name = "" THEN "unknown"
    ELSE LET isVirtual == isVirtualInterface(attrs.name, vcache)
             isExternal == isExternalInterface(attrs.index, attrs.name, extIdx)
         IN  IF isExternal
             THEN (IF isVirtual THEN "externalVirtual" ELSE "externalPhysical")
             ELSE IF hasInternalVirtualPrefix(attrs.name) THEN "internalVirtualSkip"
             ELSE IF isVirtual THEN "internalVirtual"
             ELSE "externalPhysical"

Classify(attrs, vcache, extIdx) ==
    IF attrs = NilAttrs THEN "unknown"
    ELSE IF attrs.loopback THEN "loopback"
    ELSE IF attrs.name = "" THEN "unknown"
    ELSE IF hasInternalVirtualPrefix(attrs.name) THEN "internalVirtualSkip"
    ELSE LET isVirtual == isVirtualInterface(attrs.name, vcache)
             isExternal == isExternalInterface(attrs.index, attrs.name, extIdx)
         IN  IF isExternal
             THEN (IF isVirtual THEN "externalVirtual" ELSE "externalPhysical")
             ELSE IF isVirtual THEN "internalVirtual"
             ELSE "externalPhysical"

\* The is-virtual cache after Classify ran on the given names.
CacheAfterClassify(vcache, names) ==
    [n \in LinkNames |->
        IF /\ n \in names /\ vcache[n] = "unset"
           /\ ~IsLoopbackDev(n) /\ ~hasInternalVirtualPrefix(n)
        THEN (IF VirtualHardwareTable[n] THEN "yes" ELSE "no")
        ELSE vcache[n]]

ProfileClasses == {"loopback", "externalPhysical", "externalVirtual", "internalVirtual"}

ProfileOf(class) ==
    CASE class = "loopback" -> newProfileSet.loopback
      [] class = "externalPhysical" -> newProfileSet.externalPhysical
      [] class = "externalVirtual" -> newProfileSet.externalVirtual
      [] class = "internalVirtual" -> newProfileSet.internalVirtual

\* ------------------------------------------------------------ profile context

\* deriveProfileParameters
MtuStr(attrs, profile) ==
    IF profile.mtuOverride /= "" THEN profile.mtuOverride ELSE Itoa(attrs.mtu)

QueueLength(attrs, profile) == profile.queueLength

\* The MTUs a base link has in the modelled hosts.
LinkMTUs == {1500, 65536, defaultLoopbackMTU} \cup {MinMTU - 1, MinMTU, MaxMTU}

\* buildProfileContext's signature for a link of the given class and MTU,
\* computed once for every class and MTU.
SignatureTable ==
    [class \in ProfileClasses |-> [mtu \in LinkMTUs |->
        makeSignature(MtuStr([mtu |-> mtu], ProfileOf(class)),
                      QueueLength([mtu |-> mtu], ProfileOf(class)),
                      ProfileOf(class))]]

SignatureOf(attrs, class) == SignatureTable[class][attrs.mtu]

\* A parseProfileParameters that checks no range.
parseProfileParametersAnyNumber(mtuStr, queueLength) ==
    AtoiOk(mtuStr) /\ AtoiOk(queueLength)

\* parseProfileParameters: TRUE when both values parse and are in range.
parseProfileParametersOk(mtuStr, queueLength) ==
    /\ AtoiOk(mtuStr)
    /\ AtoiVal(mtuStr) >= MinMTU /\ AtoiVal(mtuStr) <= MaxMTU
    /\ AtoiOk(queueLength)
    /\ AtoiVal(queueLength) >= MinQueueLen /\ AtoiVal(queueLength) <= MaxQueueLen

\* isAlreadyConfigured that never skips.
isAlreadyConfiguredNever(iface, sig) == FALSE

isAlreadyConfigured(iface, sig) ==
    /\ appliedSignatures[iface] /= NoSig
    /\ appliedSignatures[iface] = sig
    /\ LinkByNameFound(ifbNameOf(iface))
    /\ kernel[ifbNameOf(iface)].up

shouldProcessLink(attrs, sel) ==
    /\ attrs.name /= ""
    /\ ~HasPrefix(attrs.name, "ifb")
    /\ (~sel.all => attrs.name \in sel.names)

workerCount(total) == IF total < defaultWorkerCount THEN total ELSE defaultWorkerCount

\* ------------------------------------------------------------ worker records

NoIfb == [found |-> FALSE, mtu |-> 0, qlen |-> 0, up |-> FALSE]

OffWk ==
    [ pc |-> "off", link |-> NoLink, class |-> "", ifb |-> NoIfb,
      cmdFailed |-> FALSE, stepErrs |-> 0, processed |-> 0, failed |-> 0,
      late |-> FALSE ]

IdleWk(processed, failed) ==
    [OffWk EXCEPT !.pc = "idle", !.processed = processed, !.failed = failed]

JobProfile(r) == ProfileOf(r.class)
JobMtuStr(r) == MtuStr(r.link, JobProfile(r))
JobQueueLength(r) == QueueLength(r.link, JobProfile(r))
JobIfbName(r) == ifbNameOf(r.link.name)

RECURSIVE SumProcessed(_)
SumProcessed(stats) ==
    IF Len(stats) = 0 THEN 0 ELSE stats[1].processed + SumProcessed(Tail(stats))

RECURSIVE SumFailed(_)
SumFailed(stats) ==
    IF Len(stats) = 0 THEN 0 ELSE stats[1].failed + SumFailed(Tail(stats))

NoHistory(v) == [n \in LinkNames |-> v]

\* ------------------------------------------------------------ applyInterfaces

NoResult == [listErr |-> FALSE, errs |-> <<>>, failed |-> 0, processed |-> 0]

NoRecorded == [cnt |-> NoHistory(0), unres |-> FALSE]

\* No function call is under study (the daemon specifications).
NoCalc == [op |-> "none"]

\* A watch loop that returns when applyPending returns an error.
AfterReapplyFatal(err) == IF err THEN "returned" ELSE "select"

\* watchLoop after applyPending returned: the error is logged and the loop
\* goes back to its select.
AfterReapply(err) == "select"

\* Shaper.Apply that returns Optimize's error as well.
ApplyResultWithOptimize(optErr, passErr) == optErr \/ passErr

\* Shaper.Apply's result: Optimize's error is logged, applyInterfaces' returned.
ApplyResult(optErr, passErr) == passErr

\* Entry of applyInterfaces(ctx, sel), called by Shaper.Apply or applyPending.
EnterApply(sel, caller) ==
    /\ running' = running + 1
    /\ passPc' = "list"
    /\ passCaller' = caller
    /\ only' = sel
    /\ UNCHANGED <<passLinks, requiredIfbs, workCh, wk, errCh, statsCh, passResult,
                   taken, cfgRuns, cmdLog, outcome, lastRun, pre, deadline>>

\* Return of applyInterfaces to its caller: Shaper.Apply hands the error to
\* Daemon.Run, which returns it or starts the watcher; applyPending hands it to
\* the watch loop, which logs it and goes on. The activation's locals, the
\* pass history and the record of the drained events end here.
ReturnToCaller(listErr) ==
    /\ running' = running - 1
    /\ passPc' = "idle"
    /\ IF passCaller = "main"
       THEN /\ runPc' = (IF ApplyResult(optimizeErr, listErr) THEN "returned" ELSE "startWatch")
            /\ UNCHANGED <<watchPc, loopErrs>>
       ELSE /\ watchPc' = AfterReapply(listErr)
            /\ loopErrs' = (loopErrs \/ listErr \/ passResult.failed > 0 \/ deadline)
            /\ UNCHANGED runPc
    /\ optimizeErr' = FALSE
    /\ deadline' = FALSE
    /\ passCaller' = "none"
    /\ only' = NoSelector
    /\ passLinks' = <<>>
    /\ requiredIfbs' = {}
    /\ workCh' = <<>>
    /\ wk' = [w \in Workers |-> OffWk]
    /\ errCh' = <<>>
    /\ statsCh' = <<>>
    /\ passResult' = NoResult
    /\ taken' = NoHistory(0)
    /\ cfgRuns' = NoHistory(0)
    /\ cmdLog' = NoHistory(<<>>)
    /\ outcome' = NoHistory("none")
    /\ UNCHANGED lastRun
    /\ pre' = NoHistory("none")
    /\ recorded' = NoRecorded

\* listAndPrepareLinks: LinkList, then RefreshExternalInterfaces (skipped while
\* the refresh interval has not elapsed since the last refresh).
PassList ==
    /\ passPc = "list"
    /\ \E okList \in NlOutcomes, elapsed \in BOOLEAN, ok4 \in NlOutcomes, ok6 \in NlOutcomes :
        LET refresh == lastRefreshZero \/ elapsed
        IN  /\ (~okList \/ ~refresh) => (ok4 /\ ok6)
            /\ lastRefreshZero => elapsed
            /\ WithinBudget(SpentNl(<<okList, ok4, ok6>>))
            /\ failures' = SpentNl(<<okList, ok4, ok6>>)
            /\ IF ~okList
               THEN /\ elapsed
                    /\ ReturnToCaller(TRUE)
                    /\ UNCHANGED <<externalLinkIndexes, lastRefreshZero>>
               ELSE /\ passLinks' = LinkList
                    /\ passPc' = "prepare"
                    /\ IF refresh
                       THEN /\ externalLinkIndexes' =
                                  (IF ok4 THEN DefaultRoutesV4 ELSE {})
                                  \cup (IF ok6 THEN DefaultRoutesV6 ELSE {})
                            /\ lastRefreshZero' = FALSE
                       ELSE UNCHANGED <<externalLinkIndexes, lastRefreshZero>>
                    /\ UNCHANGED <<running, runPc, watchPc, passResult, passCaller, only,
                                   requiredIfbs, workCh, wk, errCh, statsCh, taken,
                                   cfgRuns, cmdLog, outcome, lastRun, pre, recorded,
                                   loopErrs, optimizeErr, deadline>>
    /\ UNCHANGED <<kernel, cancelled, appliedSignatures, didInitialCleanup, virtualCache,
                   linkCh, addrCh, linkClosed, addrClosed, applyTick, pending, snap, track,
                   subs, calc>>

\* cleanupSkippedVirtualInterfaces: the links whose qdiscs and IFB it removes.
CleanupTargets(links) ==
    {links[i].name : i \in {j \in 1..Len(links) :
        /\ ~HasPrefix(links[j].name, "ifb")
        /\ ~links[j].loopback
        /\ hasInternalVirtualPrefix(links[j].name)}}

determineRequiredIfbs(links, vcache, extIdx) ==
    {ifbNameOf(links[i].name) : i \in {j \in 1..Len(links) :
        /\ links[j].name /= ""
        /\ ~HasPrefix(links[j].name, "ifb")
        /\ Classify(links[j], vcache, extIdx) \in ProfileClasses}}

\* The links determineRequiredIfbs classifies.
ClassifiedNames(links) ==
    {links[i].name : i \in {j \in 1..Len(links) :
        links[j].name /= "" /\ ~HasPrefix(links[j].name, "ifb")}}

\* applyToLinks' feeding of the work channel: each link once, twice in the
\* faulty variant.
EnqueueTwice(ch, links) == ch \o links \o links

EnqueueAll(ch, links) == ch \o links

\* An ensureInitialCleanup that cleans up in every pass.
ensureCleanupEveryPass(done, links) == CleanupTargets(links)

\* ensureInitialCleanup: the links cleaned up by this pass, none once
\* didInitialCleanup is set.
ensureInitialCleanup(done, links) == IF done THEN {} ELSE CleanupTargets(links)

\* ensureInitialCleanup, determineRequiredIfbs and the start of applyToLinks
\* (workers started, every link queued, the channel closed).
PassPrepare ==
    /\ passPc = "prepare"
    /\ LET targets == ensureInitialCleanup(didInitialCleanup, passLinks)
       IN  \E failed \in SUBSET targets :
            /\ CtxDone => failed = targets
            /\ ~CtxDone => WithinBudget(failures + Cardinality(failed))
            /\ failures' = IF CtxDone THEN failures ELSE failures + Cardinality(failed)
            /\ kernel' = [n \in LinkNames |->
                    IF \E t \in targets \ failed : n = ifbNameOf(t)
                    THEN [kernel[n] EXCEPT !.exists = FALSE, !.up = FALSE]
                    ELSE kernel[n]]
    /\ didInitialCleanup' = TRUE
    /\ requiredIfbs' = determineRequiredIfbs(passLinks, virtualCache, externalLinkIndexes)
    /\ virtualCache' = CacheAfterClassify(virtualCache, ClassifiedNames(passLinks))
    /\ IF Len(passLinks) = 0
       THEN /\ passPc' = "prune"
            /\ UNCHANGED <<workCh, wk, passResult>>
       ELSE /\ passPc' = "workers"
            /\ wk' = [w \in Workers |->
                        IF w <= workerCount(Len(passLinks)) THEN IdleWk(0, 0) ELSE OffWk]
            /\ workCh' = EnqueueAll(<<>>, passLinks)
            /\ UNCHANGED passResult
    /\ UNCHANGED <<cancelled, appliedSignatures, externalLinkIndexes, lastRefreshZero,
                   running, passCaller, only, passLinks, errCh, statsCh,
                   runPc, watchPc, linkCh, addrCh, linkClosed, addrClosed,
                   applyTick, pending, snap,
                   taken, cfgRuns, cmdLog, outcome, lastRun, pre, recorded, track,
                   loopErrs, optimizeErr, deadline, subs, calc>>

\* ------------------------------------------------------------ linkWorker

WorkerFrame ==
    UNCHANGED <<cancelled, didInitialCleanup, externalLinkIndexes, lastRefreshZero,
                running, passPc, passCaller, only, passLinks, requiredIfbs, passResult,
                runPc, watchPc, linkCh, addrCh, linkClosed, addrClosed,
                applyTick, pending, snap, recorded, track,
                loopErrs, optimizeErr, deadline, subs, calc>>

\* Workers are interchangeable goroutines: the next link goes to the idle
\* worker with the smallest number.
IsFirstIdle(w) == wk[w].pc = "idle" /\ \A v \in Workers : v < w => wk[v].pc /= "idle"

\* runProfileSteps that runs the next step even after an error.
runProfileStepsIgnoringErrors(err, next) == next

\* runProfileSteps: the first error ends the sequence.
runProfileSteps(err, next) == IF err THEN "fail" ELSE next

\* A worker that abandons the queued links when a configure fails.
QueueDroppedOnError(queue) == <<>>

\* linkWorker after a failed processLink: the error is sent and the loop goes
\* on with the work channel as it is.
QueueAfterError(queue) == queue

\* The worker record and the pass history after processLink returned for the
\* link of r (not through the step sequence): counted, and reported if failed.
LinkDone(w, r, name, err, how) ==
    /\ wk' = [wk EXCEPT ![w] = IdleWk(r.processed + 1, r.failed + (IF err THEN 1 ELSE 0))]
    /\ errCh' = IF err THEN Append(errCh, name) ELSE errCh
    /\ outcome' = [outcome EXCEPT ![name] = how]
    /\ lastRun' = [lastRun EXCEPT ![name] = IF how \in {"ok", "failed"} THEN how ELSE @]

\* One profile step of worker w ended: with err, with the commands cmds issued
\* (anyFailed: one of them failed, reported or not), the kernel and the budget
\* as given, and the IFB attributes the worker now holds.
StepEnds(w, err, next, newKernel, spent, cmds, anyFailed, ifb) ==
    LET r == wk[w]
        name == r.link.name
    IN  /\ WithinBudget(spent)
        /\ failures' = spent
        /\ kernel' = newKernel
        /\ cmdLog' = [cmdLog EXCEPT ![name] = @ \o cmds]
        /\ IF runProfileSteps(err, next) = "fail"
           THEN /\ LinkDone(w, r, name, TRUE, "failed")
                /\ workCh' = QueueAfterError(workCh)
           ELSE /\ wk' = [wk EXCEPT ![w] =
                            [r EXCEPT !.pc = next,
                                      !.ifb = ifb,
                                      !.cmdFailed = @ \/ anyFailed,
                                      !.stepErrs = @ + (IF err THEN 1 ELSE 0)]]
                /\ UNCHANGED <<errCh, outcome, lastRun, workCh>>
        /\ UNCHANGED <<appliedSignatures, virtualCache, taken, cfgRuns, pre, statsCh>>
        /\ WorkerFrame

\* for link := range workCh { processLink(...) } up to the first profile step.
WorkerTake(w) ==
    /\ passPc = "workers"
    /\ IsFirstIdle(w)
    /\ workCh /= <<>>
    /\ LET link == Head(workCh)
           name == link.name
           r == wk[w]
           class == Classify(link, virtualCache, externalLinkIndexes)
       IN  /\ workCh' = Tail(workCh)
           /\ taken' = [taken EXCEPT ![name] = @ + 1]
           /\ IF ~shouldProcessLink(link, only)
              THEN /\ outcome' = [outcome EXCEPT ![name] = "notProcessed"]
                   /\ UNCHANGED <<wk, errCh, virtualCache, cfgRuns, pre, lastRun>>
              ELSE /\ virtualCache' = CacheAfterClassify(virtualCache, {name})
                   /\ IF class \notin ProfileClasses
                      THEN /\ LinkDone(w, r, name, FALSE, "skipClass")
                           /\ UNCHANGED <<cfgRuns, pre>>
                      ELSE LET profile == ProfileOf(class)
                               sig == SignatureOf(link, class)
                           IN  /\ cfgRuns' = [cfgRuns EXCEPT ![name] = @ + 1]
                               /\ pre' = [pre EXCEPT ![name] =
                                    IF /\ appliedSignatures[name] = sig
                                       /\ kernel[ifbNameOf(name)].exists
                                       /\ kernel[ifbNameOf(name)].up
                                    THEN "yes" ELSE "no"]
                               /\ IF isAlreadyConfigured(name, sig)
                                  THEN LinkDone(w, r, name, FALSE, "skipped")
                                  ELSE IF ~parseProfileParametersOk(
                                              MtuStr(link, profile), QueueLength(link, profile))
                                  THEN LinkDone(w, r, name, TRUE, "failed")
                                  ELSE /\ wk' = [wk EXCEPT ![w] =
                                            [r EXCEPT !.pc = "linkParams", !.link = link,
                                                      !.class = class, !.late = CtxDone]]
                                       /\ UNCHANGED <<errCh, outcome, lastRun>>
    /\ UNCHANGED <<kernel, failures, appliedSignatures, cmdLog, statsCh>>
    /\ WorkerFrame

\* configureLinkParamsStep
LinkParams(w) ==
    /\ passPc = "workers"
    /\ wk[w].pc = "linkParams"
    /\ LET r == wk[w]
           name == r.link.name
           desiredMTU == AtoiVal(JobMtuStr(r))
           desiredQueueLen == AtoiVal(JobQueueLength(r))
           needMtu == r.link.mtu /= desiredMTU
           needQ == r.link.qlen /= desiredQueueLen
       IN  IF ~needMtu /\ ~needQ
           THEN StepEnds(w, FALSE, "rootQdisc", kernel, failures, <<>>, FALSE, r.ifb)
           ELSE \E okLookup \in NlOutcomes, okMtu \in NlOutcomes, okQ \in NlOutcomes :
                LET found == okLookup /\ LinkByNameFound(name)
                    mtuRan == found /\ needMtu
                    qRan == found /\ (needMtu => okMtu) /\ needQ
                    err == ~found \/ (mtuRan /\ ~okMtu) \/ (qRan /\ ~okQ)
                    k1 == IF mtuRan /\ okMtu
                          THEN [kernel EXCEPT ![name].mtu = desiredMTU] ELSE kernel
                    k2 == IF qRan /\ okQ
                          THEN [k1 EXCEPT ![name].qlen = desiredQueueLen] ELSE k1
                IN  /\ ~mtuRan => okMtu
                    /\ ~qRan => okQ
                    /\ StepEnds(w, err, "rootQdisc", k2, SpentNl(<<okLookup, okMtu, okQ>>),
                                (IF mtuRan THEN <<"LinkSetMTU">> ELSE <<>>)
                                \o (IF qRan THEN <<"LinkSetTxQLen">> ELSE <<>>),
                                err, r.ifb)

\* configureRootQdiscStep
RootQdisc(w) ==
    /\ passPc = "workers"
    /\ wk[w].pc = "rootQdisc"
    /\ LET r == wk[w]
       IN  IF Len(JobProfile(r).rootQdisc) = 0
           THEN StepEnds(w, FALSE, "ingress", kernel, failures, <<>>, FALSE, r.ifb)
           ELSE \E ok \in CmdOutcomes :
                StepEnds(w, ~ok, "ingress", kernel, Spent(<<ok>>),
                         <<"tc qdisc replace root">>, ~ok, r.ifb)

\* configureIngressAndIfbStep: the ingress qdisc
Ingress(w) ==
    /\ passPc = "workers"
    /\ wk[w].pc = "ingress"
    /\ \E ok \in CmdOutcomes :
        StepEnds(w, ~ok, "ifbLookup", kernel, Spent(<<ok>>),
                 <<"tc qdisc replace ingress">>, ~ok, wk[w].ifb)

\* ensureIfb: LinkByName(ifb)
IfbLookup(w) ==
    /\ passPc = "workers"
    /\ wk[w].pc = "ifbLookup"
    /\ LET r == wk[w]
           ifbName == JobIfbName(r)
       IN  \E ok \in NlOutcomes :
            IF ~ok
            THEN StepEnds(w, TRUE, "ifbParams", kernel, SpentNl(<<ok>>), <<>>, TRUE, r.ifb)
            ELSE IF LinkByNameFound(ifbName)
            THEN StepEnds(w, FALSE, "ifbParams", kernel, failures, <<>>, FALSE,
                          [found |-> TRUE, mtu |-> kernel[ifbName].mtu,
                           qlen |-> kernel[ifbName].qlen, up |-> kernel[ifbName].up])
            ELSE StepEnds(w, FALSE, "ifbCreate", kernel, failures, <<>>, FALSE, r.ifb)

\* ensureIfb: ip link add name <ifb> type ifb, then LinkByName again
IfbCreate(w) ==
    /\ passPc = "workers"
    /\ wk[w].pc = "ifbCreate"
    /\ LET r == wk[w]
           ifbName == JobIfbName(r)
       IN  \E okAdd \in CmdOutcomes, okLook \in NlOutcomes :
            LET added == okAdd /\ ~LinkByNameFound(ifbName)
                k1 == IF added
                      THEN [kernel EXCEPT ![ifbName] =
                              NewIfb]
                      ELSE kernel
                err == ~added \/ ~okLook
            IN  /\ ~added => okLook
                /\ StepEnds(w, err, "ifbParams", k1,
                            SpentNl(<<okLook>>) + (Spent(<<okAdd>>) - failures),
                            <<"ip link add">>, err,
                            [found |-> TRUE, mtu |-> k1[ifbName].mtu,
                             qlen |-> k1[ifbName].qlen, up |-> k1[ifbName].up])

\* ensureIfb: ip link set <ifb> qlen <n> mtu <m> when they differ, then refresh
IfbParams(w) ==
    /\ passPc = "workers"
    /\ wk[w].pc = "ifbParams"
    /\ LET r == wk[w]
           ifbName == JobIfbName(r)
           mtu == JobMtuStr(r)
           qlen == JobQueueLength(r)
       IN  IF ~AtoiOk(mtu) \/ ~AtoiOk(qlen)
           THEN StepEnds(w, TRUE, "ifbUp", kernel, failures, <<>>, FALSE, r.ifb)
           ELSE IF r.ifb.mtu = AtoiVal(mtu) /\ r.ifb.qlen = AtoiVal(qlen)
           THEN StepEnds(w, FALSE, "ifbUp", kernel, failures, <<>>, FALSE, r.ifb)
           ELSE \E okSet \in CmdOutcomes, okRefresh \in NlOutcomes :
                LET set == okSet /\ LinkByNameFound(ifbName)
                    k1 == IF set
                          THEN [kernel EXCEPT ![ifbName].mtu = AtoiVal(mtu),
                                              ![ifbName].qlen = AtoiVal(qlen)]
                          ELSE kernel
                    refreshed == set /\ okRefresh
                IN  /\ ~set => okRefresh
                    /\ StepEnds(w, ~set, "ifbUp", k1,
                                SpentNl(<<okRefresh>>) + (Spent(<<okSet>>) - failures),
                                <<"ip link set qlen mtu">>, ~set,
                                IF refreshed
                                THEN [found |-> TRUE, mtu |-> k1[ifbName].mtu,
                                      qlen |-> k1[ifbName].qlen, up |-> k1[ifbName].up]
                                ELSE r.ifb)

\* ensureIfb that never brings the device up.
IfbNeedsUpNever(ifb) == FALSE

\* ensureIfb: attrs.Flags&net.FlagUp == 0
IfbNeedsUp(ifb) == ~ifb.up

\* ensureIfb: ip link set <ifb> up when it is down
IfbUp(w) ==
    /\ passPc = "workers"
    /\ wk[w].pc = "ifbUp"
    /\ LET r == wk[w]
           ifbName == JobIfbName(r)
       IN  IF ~IfbNeedsUp(r.ifb)
           THEN StepEnds(w, FALSE, "ifbQdisc", kernel, failures, <<>>, FALSE, r.ifb)
           ELSE \E ok \in CmdOutcomes :
                LET up == ok /\ LinkByNameFound(ifbName)
                IN  StepEnds(w, ~up, "ifbQdisc",
                             IF up THEN [kernel EXCEPT ![ifbName].up = TRUE] ELSE kernel,
                             Spent(<<ok>>), <<"ip link set up">>, ~up, r.ifb)

\* configureIngressAndIfbStep: the IFB's root qdisc
IfbQdisc(w) ==
    /\ passPc = "workers"
    /\ wk[w].pc = "ifbQdisc"
    /\ LET r == wk[w]
       IN  IF Len(JobProfile(r).ifbQdisc) = 0
           THEN StepEnds(w, FALSE, "filter", kernel, failures, <<>>, FALSE, r.ifb)
           ELSE \E ok \in CmdOutcomes :
                StepEnds(w, ~ok, "filter", kernel, Spent(<<ok>>),
                         <<"tc qdisc replace ifb root">>, ~ok, r.ifb)

\* replaceFilter: tc filter del (error ignored), then tc filter add
Filter(w) ==
    /\ passPc = "workers"
    /\ wk[w].pc = "filter"
    /\ \E okDel \in CmdOutcomes, okAdd \in CmdOutcomes :
        StepEnds(w, ~okAdd, "offloads", kernel, Spent(<<okDel, okAdd>>),
                 <<"tc filter del", "tc filter add">>, ~okDel \/ ~okAdd, wk[w].ifb)

\* ensureOffloadsStep: ethtool -k, then one batched ethtool -K for the features
\* that differ, or one ethtool -K per setting when the read failed; every error
\* is logged and the step returns nil.
Offloads(w) ==
    /\ passPc = "workers"
    /\ wk[w].pc = "offloads"
    /\ LET r == wk[w]
           name == r.link.name
           settings == JobProfile(r).offloads
       IN  IF Len(settings) = 0
           THEN StepEnds(w, FALSE, "commit", kernel, failures, <<>>, FALSE, r.ifb)
           ELSE \E okRead \in CmdOutcomes, okSet \in CmdOutcomes :
                LET setRan == ~okRead \/ ~kernel[name].feat
                    sets == IF ~okRead
                            THEN [i \in 1..Len(settings) |-> "ethtool -K"]
                            ELSE IF setRan THEN <<"ethtool -K">> ELSE <<>>
                    applied == setRan /\ okSet /\ LinkByNameFound(name)
                IN  /\ ~setRan => okSet
                    /\ StepEnds(w, FALSE, "commit",
                                IF applied THEN [kernel EXCEPT ![name].feat = TRUE] ELSE kernel,
                                Spent(<<okRead, okSet>>),
                                <<"ethtool -k">> \o sets,
                                ~okRead \/ (setRan /\ ~okSet), r.ifb)

\* configureProfile after runProfileSteps returned nil: the signature is stored.
Commit(w) ==
    /\ passPc = "workers"
    /\ wk[w].pc = "commit"
    /\ LET r == wk[w]
           name == r.link.name
       IN  /\ appliedSignatures' =
                [appliedSignatures EXCEPT ![name] = SignatureOf(r.link, r.class)]
           /\ LinkDone(w, r, name, FALSE, "ok")
    /\ UNCHANGED <<kernel, failures, virtualCache, workCh, statsCh, taken, cfgRuns,
                   cmdLog, pre>>
    /\ WorkerFrame

\* The work channel is closed and empty: the worker reports its stats and ends.
WorkerExit(w) ==
    /\ passPc = "workers"
    /\ wk[w].pc = "idle"
    /\ workCh = <<>>
    /\ statsCh' = Append(statsCh, [processed |-> wk[w].processed, failed |-> wk[w].failed])
    /\ wk' = [wk EXCEPT ![w].pc = "exited"]
    /\ UNCHANGED <<kernel, failures, appliedSignatures, virtualCache, workCh,
                   errCh, taken, cfgRuns, cmdLog, outcome, lastRun, pre>>
    /\ WorkerFrame

\* wg.Wait() returned; summarizeLinkResults collects the errors and the stats.
\* The summary is taken here as ending when the buffered errors and stats
\* have been received, as it would with both channels closed before it is
\* called. Where the code closes them, and what that does to the summary, is
\* followed by WaitReturns and RangeErrCh under SpecSummary.
PassSummarize ==
    /\ passPc = "workers"
    /\ \A w \in Workers : wk[w].pc \in {"off", "exited"}
    /\ passResult' = [listErr |-> FALSE, errs |-> errCh,
                      failed |-> SumFailed(statsCh), processed |-> SumProcessed(statsCh)]
    /\ passPc' = "prune"
    /\ UNCHANGED <<kernel, failures, cancelled, appliedSignatures, didInitialCleanup,
                   externalLinkIndexes, virtualCache, lastRefreshZero, running, passCaller,
                   only, passLinks, requiredIfbs, workCh, wk, errCh, statsCh,
                   runPc, watchPc, linkCh, addrCh, linkClosed, addrClosed,
                   applyTick, pending, snap,
                   taken, cfgRuns, cmdLog, outcome, lastRun, pre, recorded, track,
                   loopErrs, optimizeErr, deadline, subs, calc>>

\* pruneStaleIfbs that deletes nothing.
PruneNothing(links, required) == {}

\* The listed links pruneStaleIfbs deletes.
PruneCandidates(links, required) ==
    {links[i].name : i \in {j \in 1..Len(links) :
        HasPrefix(links[j].name, IfbPrefix) /\ links[j].name \notin required}}

\* pruneStaleIfbs (LinkDel, with ip link del as fallback), then return nil.
PassPrune ==
    /\ passPc = "prune"
    /\ LET cand == PruneCandidates(passLinks, requiredIfbs)
       IN  \E nlFail \in SUBSET cand :
           \E cmdFail \in SUBSET nlFail :
            /\ CtxDone => cmdFail = nlFail
            /\ WithinBudget(failures + Cardinality(nlFail)
                            + (IF CtxDone THEN 0 ELSE Cardinality(cmdFail)))
            /\ failures' = failures + Cardinality(nlFail)
                            + (IF CtxDone THEN 0 ELSE Cardinality(cmdFail))
            /\ kernel' = [n \in LinkNames |->
                    IF n \in cand /\ n \notin cmdFail
                    THEN [kernel[n] EXCEPT !.exists = FALSE, !.up = FALSE]
                    ELSE kernel[n]]
    /\ ReturnToCaller(FALSE)
    /\ UNCHANGED <<cancelled, appliedSignatures, didInitialCleanup,
                   externalLinkIndexes, virtualCache, lastRefreshZero,
                   linkCh, addrCh, linkClosed, addrClosed, applyTick, pending, snap, track,
                   subs, calc>>

\* ------------------------------------------------------------ Daemon.Run

PassVarsUnchanged ==
    UNCHANGED <<running, passPc, passCaller, only, passLinks, requiredIfbs, workCh, wk,
                errCh, statsCh, passResult, taken, cfgRuns, cmdLog, outcome, lastRun, pre,
                optimizeErr, deadline, calc>>

ShaperVarsUnchanged ==
    UNCHANGED <<kernel, appliedSignatures, didInitialCleanup, externalLinkIndexes,
                virtualCache, lastRefreshZero>>

WatchVarsUnchanged ==
    UNCHANGED <<linkCh, addrCh, linkClosed, addrClosed, applyTick, pending, snap, recorded,
                track, loopErrs, subs>>

\* Daemon.Run that starts the watcher without waiting for Apply to return.
WatchMayStartEarly(pc) == pc \in {"applying", "startWatch"}

\* Daemon.Run reaches `go Watch(ctx)` only after Apply returned nil.
WatchMayStart(pc) == pc = "startWatch"

\* d.trafficManager.Apply(ctx): the route optimisation, which returns an error
\* or nil (the error is logged), then applyInterfaces(ctx, nil).
RunApply ==
    /\ runPc = "apply"
    /\ runPc' = "applying"
    /\ \E optErr \in BOOLEAN : optimizeErr' = optErr
    /\ EnterApply(NoSelector, "main")
    /\ UNCHANGED <<failures, cancelled, watchPc, calc>>
    /\ ShaperVarsUnchanged
    /\ WatchVarsUnchanged

\* go func() { d.trafficManager.Watch(ctx) }()
RunStartWatch ==
    /\ WatchMayStart(runPc)
    /\ watchPc = "notStarted"
    /\ watchPc' = "setup"
    /\ runPc' = IF runPc = "startWatch" THEN "wait" ELSE runPc
    /\ UNCHANGED <<failures, cancelled>>
    /\ PassVarsUnchanged
    /\ ShaperVarsUnchanged
    /\ WatchVarsUnchanged

\* select { <-ctx.Done(); <-watchErrs } and wg.Wait(): Run returns once the
\* watcher has returned.
RunWait ==
    /\ runPc = "wait"
    /\ watchPc \in {"returned", "recovered"}
    /\ runPc' = "returned"
    /\ UNCHANGED <<failures, cancelled, watchPc>>
    /\ PassVarsUnchanged
    /\ ShaperVarsUnchanged
    /\ WatchVarsUnchanged

\* ------------------------------------------------------------ Watch

NoPending == [all |-> FALSE, names |-> {}]

WatcherLive == watchPc \in {"select", "snapshotted", "applying"}

\* The watch loop sees what the kernel and the tickers deliver only at its
\* select. What arrives while applyPending runs waits in a channel until the
\* pass has returned, so it is delivered during the last step of the pass.
Observes ==
    \/ watchPc = "select"
    \/ watchPc = "applying" /\ passPc = "prune"

\* The netlinkSubscriptions value before setupNetlinkSubscriptions made it, and
\* as made: closeOnce not used, linkDone and addrDone open (closed 0 times).
NoSubs == [made |-> FALSE, once |-> FALSE, linkDone |-> 0, addrDone |-> 0]

NewSubs == [NoSubs EXCEPT !.made = TRUE]

\* A Close that closes linkDone only.
CloseLinkDoneOnly(sb) ==
    IF sb.once THEN sb ELSE [sb EXCEPT !.once = TRUE, !.linkDone = @ + 1]

\* netlinkSubscriptions.Close: closeOnce.Do(close(linkDone); close(addrDone))
Close(sb) ==
    IF sb.once THEN sb
    ELSE [sb EXCEPT !.once = TRUE, !.linkDone = @ + 1, !.addrDone = @ + 1]

\* setupNetlinkSubscriptions: either subscription may fail; it then closes the
\* subscriptions itself and Watch returns before its defer is set up.
WatchSetup ==
    /\ watchPc = "setup"
    /\ \E okLink \in NlOutcomes, okAddr \in NlOutcomes :
        /\ ~okLink => okAddr
        /\ failures' = SpentNl(<<okLink, okAddr>>)
        /\ WithinBudget(failures')
        /\ watchPc' = IF okLink /\ okAddr THEN "select" ELSE "returned"
        /\ subs' = IF okLink /\ okAddr THEN NewSubs ELSE Close(NewSubs)
    /\ pending' = NoPending
    /\ UNCHANGED <<cancelled, runPc, linkCh, addrCh, linkClosed, addrClosed, applyTick,
                   snap, recorded, track, loopErrs>>
    /\ PassVarsUnchanged
    /\ ShaperVarsUnchanged

\* A watch loop whose event recording runs beside applyPending.
RecordsAt(pc) == pc \in {"select", "snapshotted"}

\* AddLink / AddAddr are called from the select of watchLoop only.
SelectsAt(pc) == pc = "select"

\* markAllLocked that leaves the flag alone.
markAllLockedNoFlag(p) == [p EXCEPT !.names = {}]

markAllLocked(p) == [all |-> TRUE, names |-> {}]

addNameLocked(p, name) == [p EXCEPT !.names = @ \cup {name}]

\* AddLink that drops the update.
AddLinkDropped(p, name) == p

\* pendingChanges.AddLink for an update whose attributes carry the given name.
AddLink(p, name) ==
    IF p.all THEN p
    ELSE IF name /= "" THEN addNameLocked(p, name)
    ELSE markAllLocked(p)

\* pendingChanges.AddAddr: resolved is the name safeGetLinkAttrs returned, or
\* "" when the lookup failed.
AddAddr(p, resolved) ==
    IF p.all THEN p
    ELSE IF resolved /= "" THEN addNameLocked(p, resolved)
    ELSE markAllLocked(p)

\* LinkByIndex(index).Attrs().Name, "" when no link has the index.
NameOfIndex(index) ==
    IF \E n \in LinkNames : kernel[n].exists /\ LinkIndex(n) = index
    THEN CHOOSE n \in LinkNames : kernel[n].exists /\ LinkIndex(n) = index
    ELSE ""

Bump(c) == IF c < MaxCount THEN c + 1 ELSE c

\* The events recorded since the last drain, after one more with this name.
Recorded(rec, name) ==
    IF name = "" THEN [rec EXCEPT !.unres = TRUE]
    ELSE [rec EXCEPT !.cnt[name] = Bump(@)]

Tracked(item, name) ==
    IF item.mark THEN [st |-> "recorded", name |-> name] ELSE track

\* case update, ok := <-subs.links  (ok): pending.AddLink(update). An update
\* whose Link is nil makes update.Attrs() panic unless all is set (AddLink then
\* returns before it): the deferred subs.Close() runs and Watch recovers and
\* returns the panic as an error.
RecvLink ==
    /\ SelectsAt(watchPc)
    /\ linkCh /= <<>>
    /\ LET item == Head(linkCh)
           name == IF item.name = NilLink THEN "" ELSE item.name
       IN  IF item.name = NilLink /\ ~pending.all
           THEN /\ watchPc' = "recovered"
                /\ subs' = Close(subs)
                /\ UNCHANGED <<pending, recorded, track>>
           ELSE /\ pending' = AddLink(pending, name)
                /\ recorded' = Recorded(recorded, name)
                /\ track' = Tracked(item, name)
                /\ UNCHANGED <<watchPc, subs>>
    /\ linkCh' = Tail(linkCh)
    /\ UNCHANGED <<failures, cancelled, runPc, addrCh, linkClosed, addrClosed,
                   applyTick, snap, loopErrs>>
    /\ PassVarsUnchanged
    /\ ShaperVarsUnchanged

\* case update, ok := <-subs.addrs  (ok): pending.AddAddr(update)
RecvAddr ==
    /\ SelectsAt(watchPc)
    /\ addrCh /= <<>>
    /\ \E ok \in NlOutcomes :
        LET item == Head(addrCh)
            resolved == IF pending.all \/ ~ok THEN "" ELSE NameOfIndex(item.index)
        IN  /\ pending.all => ok
            /\ failures' = SpentNl(<<ok>>)
            /\ pending' = AddAddr(pending, resolved)
            /\ recorded' = Recorded(recorded, IF pending.all THEN NameOfIndex(item.index)
                                               ELSE resolved)
            /\ track' = Tracked(item, IF pending.all THEN NameOfIndex(item.index)
                                       ELSE resolved)
    /\ addrCh' = Tail(addrCh)
    /\ UNCHANGED <<cancelled, runPc, watchPc, linkCh, linkClosed, addrClosed,
                   applyTick, snap, loopErrs, subs>>
    /\ PassVarsUnchanged
    /\ ShaperVarsUnchanged

\* case _, ok := <-subs.links / <-subs.addrs with !ok: the netlink library has
\* closed a subscription channel (its socket failed) and the channel is drained;
\* the loop ends with an error. The closing is modelled where the select sees it.
WatchSubscriptionClosed ==
    /\ watchPc = "select"
    /\ ~linkClosed /\ ~addrClosed
    /\ \/ linkCh = <<>> /\ linkClosed' = TRUE /\ UNCHANGED addrClosed
       \/ addrCh = <<>> /\ addrClosed' = TRUE /\ UNCHANGED linkClosed
    /\ watchPc' = "returned"
    /\ subs' = Close(subs)
    /\ UNCHANGED <<failures, cancelled, runPc, linkCh, addrCh, applyTick,
                   pending, snap, recorded, track, loopErrs>>
    /\ PassVarsUnchanged
    /\ ShaperVarsUnchanged

\* case <-ctx.Done(): return ctx.Err()
WatchCtxDone ==
    /\ watchPc = "select"
    /\ cancelled
    /\ watchPc' = "returned"
    /\ subs' = Close(subs)
    /\ UNCHANGED <<failures, cancelled, runPc, linkCh, addrCh, linkClosed, addrClosed,
                   applyTick, pending, snap, recorded, track, loopErrs>>
    /\ PassVarsUnchanged
    /\ ShaperVarsUnchanged

\* pendingChanges.snapshot
snapshot(p) ==
    IF p.all THEN [all |-> TRUE, names |-> {}]
    ELSE [all |-> FALSE, names |-> p.names]

\* case <-applyTicker.C: applyPending takes the snapshot; nothing pending ends it.
ApplyTickRecv ==
    /\ watchPc = "select"
    /\ applyTick
    /\ applyTick' = FALSE
    /\ LET sn == snapshot(pending)
       IN  IF ~sn.all /\ sn.names = {}
           THEN UNCHANGED <<snap, watchPc>>
           ELSE snap' = sn /\ watchPc' = "snapshotted"
    /\ UNCHANGED <<failures, cancelled, runPc, linkCh, addrCh, linkClosed, addrClosed,
                   pending, recorded, track, loopErrs, subs>>
    /\ PassVarsUnchanged
    /\ ShaperVarsUnchanged

\* applyPending after the snapshot: pending.clear(), then applyInterfaces with
\* nil or with the copied names.
ApplyPendingClear ==
    /\ watchPc = "snapshotted"
    /\ pending' = NoPending
    /\ LET sel == IF snap.all THEN NoSelector ELSE [all |-> FALSE, names |-> snap.names]
       IN  /\ EnterApply(sel, "watch")
           /\ track' = IF track.st = "recorded"
                       THEN [track EXCEPT !.st =
                                IF sel.all \/ track.name \in sel.names
                                THEN "covered" ELSE "missed"]
                       ELSE track
    /\ snap' = NoPending
    /\ watchPc' = "applying"
    /\ UNCHANGED <<failures, cancelled, runPc, linkCh, addrCh, linkClosed,
                   addrClosed, applyTick, recorded, loopErrs, optimizeErr, subs, calc>>
    /\ ShaperVarsUnchanged

\* A cleanup that keeps every entry.
cleanupKeepsAll(sigs, existing, listed) == sigs

\* cleanupStaleSignatures: the map after the call, given the names LinkList
\* returned (existing) and whether it returned them at all (listed).
cleanupStaleSignatures(sigs, existing, listed) ==
    IF listed
    THEN [n \in DOMAIN sigs |-> IF n \in existing THEN sigs[n] ELSE NoSig]
    ELSE sigs

\* case <-cleanupTicker.C: cleanupStaleSignatures. The ticker's channel is read
\* nowhere else, so its firing is modelled where the select takes the tick.
CleanupTickRecv ==
    /\ watchPc = "select"
    /\ \E ok \in NlOutcomes :
        /\ failures' = SpentNl(<<ok>>)
        /\ appliedSignatures' =
             cleanupStaleSignatures(appliedSignatures,
                                    {n \in LinkNames : kernel[n].exists}, ok)
        /\ loopErrs' = (loopErrs \/ ~ok)
    /\ UNCHANGED <<kernel, didInitialCleanup, externalLinkIndexes, virtualCache,
                   lastRefreshZero, cancelled, runPc, watchPc, linkCh, addrCh,
                   linkClosed, addrClosed, applyTick, pending, snap, recorded, track, subs>>
    /\ PassVarsUnchanged

\* ------------------------------------------------------------ environment

\* Names a link update can carry ("" stands for an update without a name).
EventNames == {"eth0", "lo", ""}

\* Link indexes an address update can carry.
EventIndexes == {LinkIndex("lo"), UnknownIndex}

\* An update may be singled out to be followed through the watcher when no
\* other one is being followed.
Marks == IF track.st = "none" THEN {FALSE, TRUE} ELSE {FALSE}

Follow(mark) == IF mark THEN [st |-> "queued", name |-> ""] ELSE track

EnvUnchanged ==
    /\ UNCHANGED <<failures, cancelled, runPc, watchPc, pending, snap, recorded,
                   loopErrs, subs>>
    /\ PassVarsUnchanged
    /\ ShaperVarsUnchanged

\* The kernel delivers a link update on subs.links.
EnvLinkUpdate ==
    /\ Observes
    /\ ~linkClosed
    /\ Len(linkCh) < MaxChan
    /\ \E name \in EventNames, mark \in Marks :
        /\ linkCh' = Append(linkCh, [name |-> name, mark |-> mark])
        /\ track' = Follow(mark)
    /\ UNCHANGED <<addrCh, linkClosed, addrClosed, applyTick>>
    /\ EnvUnchanged

\* The kernel delivers an address update on subs.addrs.
EnvAddrUpdate ==
    /\ Observes
    /\ ~addrClosed
    /\ Len(addrCh) < MaxChan
    /\ \E index \in EventIndexes, mark \in Marks :
        /\ addrCh' = Append(addrCh, [index |-> index, mark |-> mark])
        /\ track' = Follow(mark)
    /\ UNCHANGED <<linkCh, linkClosed, addrClosed, applyTick>>
    /\ EnvUnchanged

\* applyTicker fires (its channel holds one tick).
EnvApplyTick ==
    /\ Observes
    /\ ~applyTick
    /\ applyTick' = TRUE
    /\ UNCHANGED <<linkCh, addrCh, linkClosed, addrClosed, track>>
    /\ EnvUnchanged

\* The deadline of ctxApply (applyTimeout after applyPending made it) passes
\* while the reapply pass runs.
EnvApplyTimeout ==
    /\ watchPc = "applying"
    /\ passCaller = "watch"
    /\ passPc /= "idle"
    /\ ~CtxDone
    /\ deadline' = TRUE
    /\ UNCHANGED <<failures, cancelled, runPc, watchPc, linkCh, addrCh, linkClosed,
                   addrClosed, applyTick, pending, snap, recorded, track, loopErrs, subs,
                   running, passPc, passCaller, only, passLinks, requiredIfbs, workCh, wk,
                   errCh, statsCh, passResult, taken, cfgRuns, cmdLog, outcome, lastRun, pre,
                   optimizeErr, calc>>
    /\ ShaperVarsUnchanged

\* A NetlinkClient hands the watcher a link update whose Link is nil (the
\* LinkUpdate type allows it; the netlink library itself sends none).
EnvNilLinkUpdate ==
    /\ Observes
    /\ ~linkClosed
    /\ Len(linkCh) < MaxChan
    /\ linkCh' = Append(linkCh, [name |-> NilLink, mark |-> FALSE])
    /\ UNCHANGED <<addrCh, linkClosed, addrClosed, applyTick, track>>
    /\ EnvUnchanged

\* The daemon's context is cancelled (signal).
EnvCancel ==
    /\ ~cancelled
    /\ runPc /= "returned"
    /\ cancelled' = TRUE
    /\ UNCHANGED <<failures, runPc, watchPc>>
    /\ PassVarsUnchanged
    /\ ShaperVarsUnchanged
    /\ WatchVarsUnchanged

\* ------------------------------------------------------------ specification

AbsentLink == [exists |-> FALSE, up |-> FALSE, mtu |-> 0, qlen |-> 0, feat |-> FALSE]

\* The kernel's links when the daemon starts on a host with the given links.
InitKernel(host) ==
    [n \in LinkNames |->
        IF n \notin host THEN AbsentLink
        ELSE IF n = "lo"
        THEN [exists |-> TRUE, up |-> TRUE, mtu |-> 65536, qlen |-> 1000, feat |-> FALSE]
        ELSE IF n \in HostLinks
        THEN [exists |-> TRUE, up |-> TRUE, mtu |-> 1500, qlen |-> 1000, feat |-> FALSE]
        ELSE NewIfb]

\* The state after NewShaperWithDependencies, with Daemon.Run at pc.
InitShaperAt(pc) ==
    /\ cancelled = FALSE
    /\ appliedSignatures = NoHistory(NoSig)
    /\ didInitialCleanup = FALSE
    /\ externalLinkIndexes = {}
    /\ virtualCache = NoHistory("unset")
    /\ lastRefreshZero = TRUE
    /\ running = 0
    /\ passPc = "idle"
    /\ passCaller = "none"
    /\ only = NoSelector
    /\ passLinks = <<>>
    /\ requiredIfbs = {}
    /\ workCh = <<>>
    /\ wk = [w \in Workers |-> OffWk]
    /\ errCh = <<>>
    /\ statsCh = <<>>
    /\ passResult = NoResult
    /\ runPc = pc
    /\ watchPc = "notStarted"
    /\ linkCh = <<>>
    /\ addrCh = <<>>
    /\ linkClosed = FALSE
    /\ addrClosed = FALSE
    /\ applyTick = FALSE
    /\ pending = NoPending
    /\ snap = NoPending
    /\ taken = NoHistory(0)
    /\ cfgRuns = NoHistory(0)
    /\ cmdLog = NoHistory(<<>>)
    /\ outcome = NoHistory("none")
    /\ lastRun = NoHistory("none")
    /\ pre = NoHistory("none")
    /\ recorded = NoRecorded
    /\ loopErrs = FALSE
    /\ optimizeErr = FALSE
    /\ deadline = FALSE
    /\ subs = NoSubs

\* The state at the entry of Daemon.Run's traffic part.
InitShaper == InitShaperAt("apply")

\* A host in a network namespace of its own: the loopback device only.
WatchHost == {"lo"}

\* A host with a physical NIC, a bridge and an IFB left over by an earlier run.
PoolHost == HostLinks \cup StaleIfbs

Init ==
    /\ InitShaper
    /\ failures = 0
    /\ kernel = InitKernel(WatchHost)
    /\ track = [st |-> "off", name |-> ""]
    /\ calc = NoCalc

InitPool ==
    /\ InitShaper
    /\ failures = 0
    /\ kernel = InitKernel(PoolHost)
    /\ track = [st |-> "off", name |-> ""]
    /\ calc = NoCalc

PassNext ==
    \/ PassList
    \/ PassPrepare
    \/ \E w \in Workers : WorkerTake(w)
    \/ \E w \in Workers : LinkParams(w)
    \/ \E w \in Workers : RootQdisc(w)
    \/ \E w \in Workers : Ingress(w)
    \/ \E w \in Workers : IfbLookup(w)
    \/ \E w \in Workers : IfbCreate(w)
    \/ \E w \in Workers : IfbParams(w)
    \/ \E w \in Workers : IfbUp(w)
    \/ \E w \in Workers : IfbQdisc(w)
    \/ \E w \in Workers : Filter(w)
    \/ \E w \in Workers : Offloads(w)
    \/ \E w \in Workers : Commit(w)
    \/ \E w \in Workers : WorkerExit(w)
    \/ PassSummarize
    \/ PassPrune

WatchNext ==
    \/ WatchSetup
    \/ RecvLink
    \/ RecvAddr
    \/ WatchSubscriptionClosed
    \/ WatchCtxDone
    \/ ApplyTickRecv
    \/ ApplyPendingClear
    \/ CleanupTickRecv

EnvNext ==
    \/ EnvLinkUpdate
    \/ EnvAddrUpdate
    \/ EnvApplyTick
    \/ EnvCancel

\* The daemon while no deadline of a reapply pass passes.
NextInTime ==
    \/ RunApply
    \/ RunStartWatch
    \/ RunWait
    \/ PassNext
    \/ WatchNext
    \/ EnvNext

Next ==
    \/ NextInTime
    \/ EnvApplyTimeout

Spec == Init /\ [][Next]_vars

\* The first pass (Shaper.Apply) on the larger host.
NextPool ==
    \/ RunApply
    \/ PassNext
    \/ EnvCancel

SpecPool == InitPool /\ [][NextPool]_vars

\* Interfaces that come and go while the daemon runs (a hot-plugged NIC, a
\* tunnel that is torn down and set up again).
ChurnLinks == {"eth0"}

\* A host with the loopback device and one such interface.
ChurnHost == {"lo"} \cup ChurnLinks

\* The attributes of a newly created base interface.
NewLink == [exists |-> TRUE, up |-> TRUE, mtu |-> 1500, qlen |-> 1000, feat |-> FALSE]

ChurnFrame ==
    /\ UNCHANGED <<appliedSignatures, didInitialCleanup, externalLinkIndexes,
                   virtualCache, lastRefreshZero, addrCh, linkClosed, addrClosed,
                   applyTick, track>>
    /\ UNCHANGED <<failures, cancelled, runPc, watchPc, pending, snap, recorded,
                   loopErrs, subs>>
    /\ PassVarsUnchanged

\* The kernel deletes an interface between two passes and reports it on
\* subs.links. Its IFB is a device of its own and stays.
EnvLinkGone ==
    /\ watchPc = "select"
    /\ ~linkClosed
    /\ Len(linkCh) < MaxChan
    /\ \E n \in ChurnLinks :
        /\ kernel[n].exists
        /\ kernel' = [kernel EXCEPT ![n] = AbsentLink]
        /\ linkCh' = Append(linkCh, [name |-> n, mark |-> FALSE])
    /\ ChurnFrame

\* An interface of the same name and MTU is created and reported.
EnvLinkBack ==
    /\ watchPc = "select"
    /\ ~linkClosed
    /\ Len(linkCh) < MaxChan
    /\ \E n \in ChurnLinks :
        /\ ~kernel[n].exists
        /\ kernel' = [kernel EXCEPT ![n] = NewLink]
        /\ linkCh' = Append(linkCh, [name |-> n, mark |-> FALSE])
    /\ ChurnFrame

InitChurn ==
    /\ InitShaper
    /\ failures = 0
    /\ kernel = InitKernel(ChurnHost)
    /\ track = [st |-> "off", name |-> ""]
    /\ calc = NoCalc

\* The daemon and its watcher on a host whose interface comes and goes.
NextChurn ==
    \/ RunApply
    \/ RunStartWatch
    \/ PassNext
    \/ WatchSetup
    \/ RecvLink
    \/ ApplyTickRecv
    \/ ApplyPendingClear
    \/ CleanupTickRecv
    \/ EnvLinkUpdate
    \/ EnvApplyTick
    \/ EnvLinkGone
    \/ EnvLinkBack

SpecChurn == InitChurn /\ [][NextChurn]_vars

\* A host with a bridge and the IFB an earlier run of the daemon created for
\* it, before bridges were skipped.
BridgeHost == {"lo", "br0", "ifb4br0"}

InitBridge ==
    /\ InitShaper
    /\ failures = 0
    /\ kernel = InitKernel(BridgeHost)
    /\ track = [st |-> "off", name |-> ""]
    /\ calc = NoCalc

\* The daemon and its watcher's reapply passes on that host.
NextBridge ==
    \/ RunApply
    \/ RunStartWatch
    \/ PassNext
    \/ WatchSetup
    \/ RecvLink
    \/ ApplyTickRecv
    \/ ApplyPendingClear
    \/ EnvLinkUpdate
    \/ EnvApplyTick

SpecBridge == InitBridge /\ [][NextBridge]_vars

\* MTUs of the host's interface in the runs that look at validation: the
\* two ends of the accepted range and their outer neighbours.
EdgeMTUs == {MinMTU - 1, MinMTU, MaxMTU, MaxMTU + 1}

InitEdge ==
    /\ InitShaper
    /\ failures = 0
    /\ \E m \in EdgeMTUs :
          kernel = [InitKernel({"lo", "eth0"}) EXCEPT !["eth0"].mtu = m]
    /\ track = [st |-> "off", name |-> ""]
    /\ calc = NoCalc

\* The first pass on a host whose interface has such an MTU.
SpecEdge == InitEdge /\ [][NextPool]_vars

\* The stages of Daemon.Run before the traffic part, in the order of its code.
Stages == <<"sysctl", "limits", "rlimit">>

\* A Daemon.Run that goes on to the next stage whatever a stage returned.
StageAfterIgnoringError(i, ok) == IF i < Len(Stages) THEN Stages[i + 1] ELSE "apply"

\* Where Daemon.Run is after stage i's Apply returned: `return err` on an
\* error, else at the next stage.
StageAfter(i, ok) ==
    IF ~ok THEN "returned"
    ELSE IF i < Len(Stages) THEN Stages[i + 1] ELSE "apply"

\* if d.<stage>Applier != nil { if err := d.<stage>Applier.Apply(ctx); err != nil
\* { return err } }: calc.appliers tells which appliers the daemon was built
\* with, calc.stages logs the Apply calls, calc.err the stage whose error Run
\* returned.
RunStage(i) ==
    /\ calc.op = "Run"
    /\ runPc = Stages[i]
    /\ IF ~calc.appliers[i]
       THEN /\ runPc' = StageAfter(i, TRUE)
            /\ UNCHANGED calc
       ELSE \E ok \in BOOLEAN :
            /\ runPc' = StageAfter(i, ok)
            /\ calc' = [calc EXCEPT !.stages = Append(@, Stages[i]),
                                    !.err = IF ok THEN @ ELSE Stages[i]]
    /\ UNCHANGED <<failures, cancelled, watchPc>>
    /\ UNCHANGED <<running, passPc, passCaller, only, passLinks, requiredIfbs, workCh, wk,
                   errCh, statsCh, passResult, taken, cfgRuns, cmdLog, outcome, lastRun, pre,
                   optimizeErr, deadline>>
    /\ ShaperVarsUnchanged
    /\ WatchVarsUnchanged

\* Daemon.Run from its entry, the daemon built with or without each of the
\* three appliers.
InitRun ==
    /\ InitShaperAt(Stages[1])
    /\ failures = 0
    /\ kernel = InitKernel(WatchHost)
    /\ track = [st |-> "off", name |-> ""]
    /\ \E a \in [1..Len(Stages) -> BOOLEAN] :
          calc = [op |-> "Run", appliers |-> a, stages |-> <<>>, err |-> ""]

NextRun ==
    \/ \E i \in 1..Len(Stages) : RunStage(i)
    \/ RunApply
    \/ RunStartWatch
    \/ RunWait
    \/ PassNext
    \/ WatchSetup
    \/ RecvLink
    \/ WatchCtxDone
    \/ ApplyTickRecv
    \/ ApplyPendingClear
    \/ EnvLinkUpdate
    \/ EnvApplyTick
    \/ EnvCancel

SpecRun == InitRun /\ [][NextRun]_vars

\* The channels of applyToLinks as the code closes them. errCh and statsCh
\* are closed by deferred calls, which run when applyToLinks returns, and
\* applyToLinks returns what summarizeLinkResults returns. PassSummarize above
\* takes the summary as one step that ends when the channels are drained;
\* the two actions below follow summarizeLinkResults receive by receive.
SummaryFrame ==
    UNCHANGED <<kernel, failures, cancelled, appliedSignatures, didInitialCleanup,
                externalLinkIndexes, virtualCache, lastRefreshZero, running, passCaller,
                only, passLinks, requiredIfbs, workCh, wk, statsCh,
                runPc, watchPc, linkCh, addrCh, linkClosed, addrClosed,
                applyTick, pending, snap,
                taken, cfgRuns, cmdLog, outcome, lastRun, pre, recorded, track,
                loopErrs, optimizeErr, deadline, subs, calc>>

\* wg.Wait() returned: summarizeLinkResults is called and reaches
\* `for err := range errCh`.
WaitReturns ==
    /\ passPc = "workers"
    /\ \A w \in Workers : wk[w].pc \in {"off", "exited"}
    /\ passPc' = "rangeErrCh"
    /\ UNCHANGED <<errCh, passResult>>
    /\ SummaryFrame

\* One iteration of `for err := range errCh`: a buffered error is received
\* and added. The loop ends when the channel is closed and empty; nothing
\* closes errCh before applyToLinks returns, so there is no such step.
RangeErrCh ==
    /\ passPc = "rangeErrCh"
    /\ errCh /= <<>>
    /\ passResult' = [passResult EXCEPT !.errs = Append(@, Head(errCh))]
    /\ errCh' = Tail(errCh)
    /\ UNCHANGED passPc
    /\ SummaryFrame

\* The steps of one pass up to and including summarizeLinkResults.
ApplyToLinksNext ==
    \/ PassList
    \/ PassPrepare
    \/ \E w \in Workers : WorkerTake(w)
    \/ \E w \in Workers : LinkParams(w)
    \/ \E w \in Workers : RootQdisc(w)
    \/ \E w \in Workers : Ingress(w)
    \/ \E w \in Workers : IfbLookup(w)
    \/ \E w \in Workers : IfbCreate(w)
    \/ \E w \in Workers : IfbParams(w)
    \/ \E w \in Workers : IfbUp(w)
    \/ \E w \in Workers : IfbQdisc(w)
    \/ \E w \in Workers : Filter(w)
    \/ \E w \in Workers : Offloads(w)
    \/ \E w \in Workers : Commit(w)
    \/ \E w \in Workers : WorkerExit(w)
    \/ WaitReturns
    \/ RangeErrCh

\* The first pass (Shaper.Apply) with the summary as the code runs it.
NextSummary ==
    \/ RunApply
    \/ ApplyToLinksNext

SpecSummary == InitPool /\ [][NextSummary]_vars

\* The daemon with a NetlinkClient that may also deliver a link update whose
\* Link is nil, which makes the watcher panic.
NextTeardown ==
    \/ NextInTime
    \/ EnvNilLinkUpdate

SpecTeardown == Init /\ [][NextTeardown]_vars

\* The daemon with one delivered update followed through the watcher, on a
\* host whose commands and netlink calls succeed (what a failing one does to a
\* pass is the subject of Spec and SpecPool).
InitLive ==
    /\ InitShaper
    /\ failures = MaxFailures
    /\ kernel = InitKernel(WatchHost)
    /\ track = [st |-> "none", name |-> ""]
    /\ calc = NoCalc

\* Scheduling: the goroutines of a pass, Daemon.Run and applyPending keep
\* running (weak fairness); the ticker keeps firing; select picks at random
\* among its ready cases, so a case that is ready again and again is taken
\* (strong fairness for the two receive cases, which a pass interrupts).
Fairness ==
    /\ WF_vars(RunApply)
    /\ WF_vars(PassNext)
    /\ WF_vars(RunStartWatch)
    /\ WF_vars(WatchSetup)
    /\ WF_vars(EnvApplyTick)
    /\ WF_vars(ApplyTickRecv)
    /\ WF_vars(ApplyPendingClear)
    /\ SF_vars(RecvLink)
    /\ SF_vars(RecvAddr)

SpecLive == InitLive /\ [][NextInTime]_vars /\ Fairness

\* ------------------------------------------------------------ properties

IfbLinks == {n \in LinkNames : HasPrefix(n, IfbPrefix) /\ kernel[n].exists}

\* The present base interfaces that are not skipped.
ShapedBases ==
    {n \in LinkNames :
        /\ kernel[n].exists
        /\ ~HasPrefix(n, "ifb")
        /\ Classify(AttrsOf(n), virtualCache, externalLinkIndexes) \in ProfileClasses}

Succeeded(n) == outcome[n] \in {"ok", "skipped"}

C2_CommitAfterSteps ==
    [][\A n \in LinkNames :
        /\ appliedSignatures'[n] /= appliedSignatures[n] /\ appliedSignatures'[n] /= NoSig
              => \E w \in Workers : /\ wk[w].link.name = n
                                    /\ wk[w].pc = "commit"
                                    /\ wk[w].stepErrs = 0
        /\ outcome[n] /= "failed" /\ outcome'[n] = "failed"
              => appliedSignatures'[n] = appliedSignatures[n]]_vars

C2_Witness ==
    /\ appliedSignatures["eth0"] /= NoSig
    /\ outcome["eth0"] = "ok"
    /\ outcome["lo"] = "failed"
    /\ appliedSignatures["lo"] = NoSig

\* C2 as stated: a run in which a command of any step failed leaves the stored
\* signature as it was.
C2_NoCommitAfterFailedCommand ==
    [][\A n \in LinkNames :
        appliedSignatures'[n] /= appliedSignatures[n] /\ appliedSignatures'[n] /= NoSig
            => \E w \in Workers : wk[w].link.name = n /\ ~wk[w].cmdFailed]_vars

C4_IfbUpAfterSuccess ==
    \A n \in LinkNames :
        Succeeded(n) => /\ Len(ifbNameOf(n)) <= IfNameMax
                        /\ kernel[ifbNameOf(n)].exists
                        /\ kernel[ifbNameOf(n)].up

C4_Witness ==
    /\ outcome["lo"] = "ok"
    /\ "ip link add" \in {cmdLog["lo"][i] : i \in 1..Len(cmdLog["lo"])}
    /\ kernel["ifb4lo"].up

\* C5: however many events name an interface between two drains, the drained
\* names hold it once and the pass takes the link and runs configureProfile
\* for it at most once.
C5_PendingCoalescing ==
    \A n \in LinkNames : taken[n] <= 1 /\ cfgRuns[n] <= 1

C5_Witness ==
    /\ watchPc = "applying"
    /\ recorded.cnt["lo"] >= 2
    /\ only = [all |-> FALSE, names |-> {"lo"}]
    /\ cfgRuns["lo"] = 1

\* C6: once an event without a resolvable name has been recorded, all is set
\* and stays set until the drain, and the pass of that drain gets the nil
\* selector (all interfaces).
C6_ApplyAllEscalation ==
    recorded.unres =>
        /\ watchPc \in {"select", "snapshotted"} => pending.all
        /\ watchPc = "snapshotted" => snap.all
        /\ watchPc = "applying" => only.all

C6_Witness ==
    /\ watchPc = "applying"
    /\ recorded.unres
    /\ recorded.cnt["lo"] >= 1
    /\ only.all

\* C7: nothing is recorded between snapshot and clear, so every event that the
\* clear removes is part of the snapshot handed to applyInterfaces.
C7_DrainAtomic ==
    /\ watchPc = "snapshotted" => snap = snapshot(pending)
    /\ watchPc = "applying" =>
          \A n \in LinkNames : recorded.cnt[n] > 0 => (only.all \/ n \in only.names)

C7_Witness ==
    /\ watchPc = "applying"
    /\ recorded.cnt["lo"] > 0
    /\ recorded.cnt["eth0"] > 0
    /\ only = [all |-> FALSE, names |-> {"lo", "eth0"}]
    /\ linkCh /= <<>>

\* C8: at most one applyInterfaces activation exists at any time, and the
\* watcher does not exist before Shaper.Apply has returned.
C8_OnePassAtATime ==
    /\ running <= 1
    /\ watchPc /= "notStarted" => runPc \in {"wait", "returned"}
    /\ running = 1 => (passCaller = "main") = (runPc = "applying")

C8_Witness ==
    /\ running = 1
    /\ passCaller = "watch"
    /\ passPc = "prune"
    /\ applyTick

MaximumSupportedMemoryMB == 104857600

\* MemoryEffectivenessFactor = 0.8 as the fraction EffectiveNum / EffectiveDen.
\* Memory sizes are whole MB here; for whole numbers up to
\* MaximumSupportedMemoryMB the float64 test tier <= systemMB * 0.8 agrees with
\* tier * EffectiveDen <= systemMB * EffectiveNum (the product is rounded to
\* the nearest double, whole numbers of this size are doubles, and rounding
\* is monotone).
EffectiveNum == 8
EffectiveDen == 10

Qualifies(tierMB, systemMB) == tierMB * EffectiveDen <= systemMB * EffectiveNum

\* A selection loop that walks the tiers from the smallest upwards.
RECURSIVE scanTiersAscending(_, _, _)
scanTiersAscending(tiers, systemMB, i) ==
    IF i = 0 THEN tiers[1]
    ELSE IF Qualifies(tiers[Len(tiers) + 1 - i], systemMB) THEN tiers[Len(tiers) + 1 - i]
    ELSE scanTiersAscending(tiers, systemMB, i - 1)

\* for i := len(tiers) - 1; i >= 0; i-- { ... }; return tiers[0]
\* (i is the 1-based position still to look at)
RECURSIVE scanTiers(_, _, _)
scanTiers(tiers, systemMB, i) ==
    IF i = 0 THEN tiers[1]
    ELSE IF Qualifies(tiers[i], systemMB) THEN tiers[i]
    ELSE scanTiers(tiers, systemMB, i - 1)

selectBestMemoryTier(systemMB, tiers) ==
    IF Len(tiers) = 0 THEN [err |-> TRUE, tier |-> 0]
    ELSE IF systemMB <= 0 THEN [err |-> TRUE, tier |-> 0]
    ELSE IF systemMB > MaximumSupportedMemoryMB THEN [err |-> TRUE, tier |-> 0]
    ELSE [err |-> FALSE, tier |-> scanTiers(tiers, systemMB, Len(tiers))]

\* Template sizes (limits_1gb.conf, limits_4gb.conf, ...) in MB.
TierSizes == {1024, 4096, 8192, 12288}

\* sort.Slice of scanMemoryTierConfigs: the sizes of a set in ascending order.
RECURSIVE Ascending(_)
Ascending(S) ==
    IF S = {} THEN <<>>
    ELSE LET m == CHOOSE x \in S : \A y \in S : x <= y
         IN  <<m>> \o Ascending(S \ {m})

TierLists == {Ascending(S) : S \in SUBSET TierSizes}

\* Memory readings: invalid ones, and ones below, at and above the point
\* where each tier starts to qualify.
SystemMBs ==
    {0, 512, 1279, 1280, 5119, 5120, 8192, 10239, 10240, 15359, 15360, 16384,
     MaximumSupportedMemoryMB, MaximumSupportedMemoryMB + 1}

TierInputs ==
    {[op |-> "selectBestMemoryTier", done |-> FALSE, systemMB |-> m, tiers |-> t,
      out |-> [err |-> FALSE, tier |-> 0]] : m \in SystemMBs, t \in TierLists}

\* ------------------------------------------- the function specifications

DaemonUnchanged ==
    UNCHANGED <<kernel, failures, cancelled, appliedSignatures, didInitialCleanup,
                externalLinkIndexes, virtualCache, lastRefreshZero,
                running, passPc, passCaller, only, passLinks, requiredIfbs,
                workCh, wk, errCh, statsCh, passResult,
                runPc, watchPc, linkCh, addrCh, linkClosed, addrClosed,
                applyTick, pending, snap,
                taken, cfgRuns, cmdLog, outcome, lastRun, pre, recorded, track,
                loopErrs, optimizeErr, deadline, subs>>

InitDaemonIdle ==
    /\ InitShaper
    /\ failures = 0
    /\ kernel = InitKernel(WatchHost)
    /\ track = [st |-> "off", name |-> ""]

Pending(op) == calc.op = op /\ ~calc.done

SelectTier ==
    /\ Pending("selectBestMemoryTier")
    /\ calc' = [calc EXCEPT !.done = TRUE,
                            !.out = selectBestMemoryTier(calc.systemMB, calc.tiers)]
    /\ DaemonUnchanged

InitTiers == InitDaemonIdle /\ calc \in TierInputs

SpecTiers == InitTiers /\ [][SelectTier]_vars

\* C13: for a non-empty ascending tier list and a valid reading the selected
\* tier is the largest one with MB <= 0.8 * systemMB, or the smallest tier
\* when none qualifies; so it is <= 0.8 * systemMB unless it is the minimum;
\* with tiers 1/4/8/12 GB, 8192 MB selects 4 GB, 16384 MB 12 GB, 512 MB 1 GB.
C13_TierSelection ==
    (calc.op = "selectBestMemoryTier" /\ calc.done) =>
        LET t == calc.tiers
            m == calc.systemMB
            ok == {i \in 1..Len(t) : t[i] * 10 <= m * 8}
            sel == calc.out.tier
        IN  (Len(t) > 0 /\ m > 0 /\ m <= MaximumSupportedMemoryMB) =>
              /\ ~calc.out.err
              /\ \E i \in 1..Len(t) : t[i] = sel
              /\ ok = {} => sel = t[1]
              /\ ok /= {} => (sel * 10 <= m * 8 /\ \A i \in ok : t[i] <= sel)
              /\ (sel * 10 <= m * 8 \/ \A i \in 1..Len(t) : sel <= t[i])
              /\ (t = <<1024, 4096, 8192, 12288>> /\ m = 8192) => sel = 4096
              /\ (t = <<1024, 4096, 8192, 12288>> /\ m = 16384) => sel = 12288
              /\ (t = <<1024, 4096, 8192, 12288>> /\ m = 512) => sel = 1024

C13_Witness ==
    /\ calc.op = "selectBestMemoryTier"
    /\ calc.done
    /\ calc.tiers = <<1024, 4096, 8192, 12288>>
    /\ calc.systemMB = 8192
    /\ calc.out = [err |-> FALSE, tier |-> 4096]

\* ----------------------------------------------------------- IFB naming

\* Interface names: every string of up to HeadLen of the letters of "ifbe",
\* followed by nothing or by a run of zeros that takes the name up to the
\* kernel's limit of IfNameMax characters.
HeadLen == 3
HeadChars == {"i", "f", "b", "e"}

RECURSIVE Heads(_)
Heads(n) ==
    IF n = 0 THEN {""}
    ELSE LET shorter == Heads(n - 1)
         IN  shorter \cup {h \o c : h \in shorter, c \in HeadChars}

RECURSIVE Zeros(_)
Zeros(n) == IF n = 0 THEN "" ELSE "0" \o Zeros(n - 1)

PadLens == {0} \cup ((IfNameMax - HeadLen - 5)..(IfNameMax - HeadLen))

IfaceNames == {h \o Zeros(k) : h \in Heads(HeadLen), k \in PadLens}

NameInputs ==
    {[op |-> "ifbName", done |-> FALSE, name |-> n, accepted |-> FALSE, out |-> ""] :
        n \in IfaceNames}

\* processLink: shouldProcessLink with no selector, then buildProfileContext
\* derives the IFB name of the interface.
IfbNameCall ==
    /\ Pending("ifbName")
    /\ calc' = [calc EXCEPT !.done = TRUE,
                            !.accepted = shouldProcessLink([name |-> calc.name], NoSelector),
                            !.out = ifbNameOf(calc.name)]
    /\ DaemonUnchanged

InitNames == InitDaemonIdle /\ calc \in NameInputs

SpecNames == InitNames /\ [][IfbNameCall]_vars

TailChars == {"a", "b"}
Tails == {""} \cup TailChars \cup {c \o d : c \in TailChars, d \in TailChars}
LongNames ==
    {n \in {"e" \o Zeros(k) \o t : k \in (IfNameMax - HeadLen - 5)..(IfNameMax - 1), t \in Tails} :
        Len(n) <= IfNameMax}

PairInputs ==
    {[op |-> "ifbPair", done |-> FALSE, names |-> <<a, b>>,
      accepted |-> <<FALSE, FALSE>>, out |-> <<"", "">>] :
        a \in LongNames, b \in LongNames}

\* processLink for two links of one pass: each worker's buildProfileContext
\* derives the IFB name of its own interface.
IfbNamePairCall ==
    /\ Pending("ifbPair")
    /\ calc' = [calc EXCEPT
                  !.done = TRUE,
                  !.accepted = [i \in 1..2 |->
                                  shouldProcessLink([name |-> calc.names[i]], NoSelector)],
                  !.out = [i \in 1..2 |-> ifbNameOf(calc.names[i])]]
    /\ DaemonUnchanged

InitPairs == InitDaemonIdle /\ calc \in PairInputs

SpecPairs == InitPairs /\ [][IfbNamePairCall]_vars

\* C28 as stated: two distinct accepted interface names never get the same
\* IFB device name.
C28_IfbNameInjective ==
    (/\ calc.op = "ifbPair"
     /\ calc.done
     /\ calc.accepted = <<TRUE, TRUE>>
     /\ calc.names[1] /= calc.names[2]) => calc.out[1] /= calc.out[2]

\* ------------------------------------------------------ route optimizer

defaultMSS == 1460
defaultLoopbackMSS == 65520
defaultLoopbackWindowBytes == 16777216

\* WindowConfig.WithDefaults
WithDefaults(cfg) ==
    IF cfg.MSSBytes <= 0 THEN [cfg EXCEPT !.MSSBytes = defaultMSS] ELSE cfg

\* Go's int division of non-negative operands truncates, as \div does.
bytesToSegments(bytes, mss) ==
    IF mss <= 0 \/ bytes <= 0 THEN 0
    ELSE (bytes + mss - 1) \div mss

NewOptimizer(config) ==
    LET cfg == WithDefaults(config)
        loopbackWindowSegments == bytesToSegments(cfg.LoopbackWindowBytes, cfg.MSSBytes)
    IN  [ cfg |-> cfg,
          initCwndSegments |-> bytesToSegments(cfg.InitCwndBytes, cfg.MSSBytes),
          initRwndSegments |-> bytesToSegments(cfg.InitRwndBytes, cfg.MSSBytes),
          loopbackCwndSegments |-> loopbackWindowSegments,
          loopbackRwndSegments |-> loopbackWindowSegments ]

newParams(mtu, initCwnd, initRwnd, congctl) ==
    [mtu |-> mtu, initCwnd |-> initCwnd, initRwnd |-> initRwnd, congctl |-> congctl]

\* The route parameters of optimizeLoopback's job.
optimizeLoopback(opt) ==
    newParams(65520, opt.loopbackCwndSegments, opt.loopbackRwndSegments, "cubic")

\* params.args: the tokens appended to `ip route change <line>`.
args(p) ==
    <<"mtu", Itoa(p.mtu), "initcwnd", Itoa(p.initCwnd), "initrwnd", Itoa(p.initRwnd),
      "fastopen_no_cookie", "1">>
    \o (IF p.congctl /= "" THEN <<"congctl", "lock", p.congctl>> ELSE <<>>)

\* Window configurations: MSS unset (as cmd/tcsss/main.go leaves it), the
\* default, another Ethernet MSS and the loopback MSS; loopback windows around
\* multiples of the loopback MSS, the two defaults (16 MiB, 10 MiB) and unset.
MSSValues == {0, defaultMSS, 1400, defaultLoopbackMSS}
InitWindowValues == {0, 14600, 146000}
LoopbackWindowValues ==
    {0, 1, 1460, defaultLoopbackMSS - 1, defaultLoopbackMSS, defaultLoopbackMSS + 1,
     2 * defaultLoopbackMSS, 10485760, defaultLoopbackWindowBytes}

WindowConfigs ==
    [MSSBytes : MSSValues, InitCwndBytes : InitWindowValues,
     InitRwndBytes : InitWindowValues, LoopbackWindowBytes : LoopbackWindowValues]

NoParams == newParams(0, 0, 0, "")

OptimizerInputs ==
    {[op |-> "NewOptimizer", done |-> FALSE, cfg |-> c, params |-> NoParams, args |-> <<>>] :
        c \in WindowConfigs}

\* NewOptimizer, then the parameters optimizeLoopback rewrites routes with.
OptimizeLoopbackCall ==
    /\ Pending("NewOptimizer")
    /\ LET p == optimizeLoopback(NewOptimizer(calc.cfg))
       IN  calc' = [calc EXCEPT !.done = TRUE, !.params = p, !.args = args(p)]
    /\ DaemonUnchanged

InitOptimizer == InitDaemonIdle /\ calc \in OptimizerInputs

SpecOptimizer == InitOptimizer /\ [][OptimizeLoopbackCall]_vars

\* C19 as stated: loopback routes are rewritten with initcwnd = initrwnd =
\* ceil(loopbackWindowBytes / 65520), the loopback MSS; 16 MiB gives 257.
C19_LoopbackSegments ==
    (calc.op = "NewOptimizer" /\ calc.done /\ calc.cfg.LoopbackWindowBytes > 0) =>
        LET bytes == calc.cfg.LoopbackWindowBytes
            ceil == CHOOSE n \in 0..(bytes + 1) : n * 65520 >= bytes /\ (n - 1) * 65520 < bytes
        IN  /\ calc.params.initCwnd = ceil
            /\ calc.params.initRwnd = ceil
            /\ bytes = 16 * 1024 * 1024 => calc.params.initCwnd = 257

\* Optimize: what the environment does to each category. fetch: `ip route
\* show` succeeds; applies: the outcome of `ip route change` for each route
\* that passed the category's filter; nicFound: getPrimaryNIC found a NIC.
Categories == <<"loopback", "local", "nic">>
CategorySet == {Categories[i] : i \in 1..Len(Categories)}
ApplyRuns == {<<>>, <<TRUE>>, <<FALSE>>, <<TRUE, FALSE>>, <<FALSE, FALSE>>}
NilError == ""

\* Optimizer.optimize: fetch, filter, applyRoutes (which goes through every
\* route and returns the first error).
optimize(category, fetchOk, applies) ==
    IF ~fetchOk THEN "fetch " \o category \o " routes: exit status 2"
    ELSE IF \E i \in 1..Len(applies) : ~applies[i]
    THEN "apply " \o category \o " route changes: exit status 2"
    ELSE NilError

optimizeNIC(env) ==
    IF ~env.nicFound THEN "failed to detect primary NIC"
    ELSE optimize("nic", env.fetch["nic"], env.applies["nic"])

\* The category function Optimize calls for c.
optimizeCategory(c, env) ==
    IF c = "nic" THEN optimizeNIC(env) ELSE optimize(c, env.fetch[c], env.applies[c])

\* MultiError.Add and MultiError.ErrorOrNil
Add(m, err) == IF err /= NilError THEN Append(m, err) ELSE m
ErrorOrNil(m) == IF Len(m) = 0 THEN [nil |-> TRUE, Errors |-> <<>>] ELSE [nil |-> FALSE, Errors |-> m]

\* An Optimize that returns at the first category that failed.
RECURSIVE OptimizeUntilError(_, _, _, _)
OptimizeUntilError(i, env, errs, attempted) ==
    IF i > Len(Categories) \/ Len(errs) > 0
    THEN [attempted |-> attempted, err |-> ErrorOrNil(errs)]
    ELSE LET c == Categories[i]
             err == optimizeCategory(c, env)
         IN  OptimizeUntilError(i + 1, env,
                                Add(errs, IF err = NilError THEN NilError ELSE c \o ": " \o err),
                                Append(attempted, c))

\* Optimizer.Optimize from its i-th category on: the category is run, its
\* error is added as "<category>: <error>", and the next one follows.
RECURSIVE Optimize(_, _, _, _)
Optimize(i, env, errs, attempted) ==
    IF i > Len(Categories)
    THEN [attempted |-> attempted, err |-> ErrorOrNil(errs)]
    ELSE LET c == Categories[i]
             err == optimizeCategory(c, env)
         IN  Optimize(i + 1, env,
                      Add(errs, IF err = NilError THEN NilError ELSE c \o ": " \o err),
                      Append(attempted, c))

OptimizeInputs ==
    {[op |-> "Optimize", done |-> FALSE,
      env |-> [fetch |-> f, applies |-> a, nicFound |-> n],
      out |-> [attempted |-> <<>>, err |-> ErrorOrNil(<<>>)]] :
        f \in [CategorySet -> BOOLEAN], a \in [CategorySet -> ApplyRuns], n \in BOOLEAN}

OptimizeCall ==
    /\ Pending("Optimize")
    /\ calc' = [calc EXCEPT !.done = TRUE, !.out = Optimize(1, calc.env, <<>>, <<>>)]
    /\ DaemonUnchanged

InitOptimize == InitDaemonIdle /\ calc \in OptimizeInputs

SpecOptimize == InitOptimize /\ [][OptimizeCall]_vars

\* A category fails when its route listing fails, when a route change fails,
\* or, for nic, when no primary NIC is found.
CategoryFails(c, env) ==
    \/ c = "nic" /\ ~env.nicFound
    \/ ~env.fetch[c]
    \/ \E i \in 1..Len(env.applies[c]) : ~env.applies[c][i]

\* The subsequence of Categories that fail under env.
RECURSIVE FailedFrom(_, _)
FailedFrom(i, env) ==
    IF i > Len(Categories) THEN <<>>
    ELSE (IF CategoryFails(Categories[i], env) THEN <<Categories[i]>> ELSE <<>>)
         \o FailedFrom(i + 1, env)

\* C24: Optimize runs loopback, local and nic whatever the earlier ones
\* returned; it returns a non-nil error exactly when some category failed,
\* and that error holds one error per failed category, in order, each
\* beginning with its category's name.
C24_OptimizeAggregates ==
    (calc.op = "Optimize" /\ calc.done) =>
        LET failed == FailedFrom(1, calc.env)
            errs == calc.out.err.Errors
        IN  /\ calc.out.attempted = Categories
            /\ calc.out.err.nil <=> (failed = <<>>)
            /\ Len(errs) = Len(failed)
            /\ \A i \in 1..Len(errs) : HasPrefix(errs[i], failed[i] \o ": ")

\* Loopback's listing fails, local succeeds, a nic route change fails.
C24_Witness ==
    /\ calc.op = "Optimize"
    /\ calc.done
    /\ ~calc.env.fetch["loopback"]
    /\ calc.env.fetch["local"] /\ calc.env.applies["local"] = <<TRUE>>
    /\ calc.env.nicFound /\ calc.env.fetch["nic"] /\ calc.env.applies["nic"] = <<TRUE, FALSE>>
    /\ calc.out.attempted = Categories
    /\ calc.out.err = [nil |-> FALSE,
                       Errors |-> <<"loopback: fetch loopback routes: exit status 2",
                                    "nic: apply nic route changes: exit status 2">>]

\* ------------------------------------------------------ signature cleanup

\* Applied-signature maps at a cleanup tick: entries for base interfaces
\* (two different signatures, or none), and the links LinkList returns.
SomeSignatures == {NoSig, "mtu=1500;qlen=10000", "mtu=9000;qlen=10000"}
SignatureMaps ==
    {[n \in LinkNames |-> IF n \in HostLinks THEN f[n] ELSE NoSig] :
        f \in [HostLinks -> SomeSignatures]}

CleanupInputs ==
    {[op |-> "cleanup", done |-> FALSE, sigs |-> m, existing |-> e, listed |-> l, out |-> m] :
        m \in SignatureMaps, e \in SUBSET LinkNames, l \in BOOLEAN}

\* One cleanup tick on its own.
CleanupCall ==
    /\ Pending("cleanup")
    /\ calc' = [calc EXCEPT !.done = TRUE,
                            !.out = cleanupStaleSignatures(calc.sigs, calc.existing, calc.listed)]
    /\ DaemonUnchanged

InitCleanup == InitDaemonIdle /\ calc \in CleanupInputs

SpecCleanup == InitCleanup /\ [][CleanupCall]_vars

WithSignature(m) == {n \in DOMAIN m : m[n] /= NoSig}

\* C23: after a cleanup tick whose link listing succeeded the interfaces with
\* a recorded signature are those that had one and still exist, each with the
\* signature it had; after a failed listing the map is as it was.
C23_StaleSignatureCleanup ==
    (calc.op = "cleanup" /\ calc.done) =>
        IF calc.listed
        THEN /\ WithSignature(calc.out) = WithSignature(calc.sigs) \cap calc.existing
             /\ \A n \in WithSignature(calc.out) : calc.out[n] = calc.sigs[n]
        ELSE calc.out = calc.sigs

\* eth0 vanished, lo and br0 are still there: eth0's entry is dropped, the
\* other two are kept.
C23_Witness ==
    /\ calc.op = "cleanup"
    /\ calc.done
    /\ calc.listed
    /\ calc.existing = {"lo", "br0", "ifb4lo", "ifb4eth0"}
    /\ WithSignature(calc.sigs) = {"lo", "eth0", "br0"}
    /\ WithSignature(calc.out) = {"lo", "br0"}
    /\ calc.out["br0"] = "mtu=9000;qlen=10000"

\* ---------------------------------------------------------- classifier

\* The links handed to Classify: their attributes (Loopback flag, name,
\* interface index), a link without a name and a nil attribute pointer.
ClassLinks ==
    << [name |-> "lo", index |-> 1, loopback |-> TRUE],
       [name |-> "docker0", index |-> 2, loopback |-> FALSE],
       [name |-> "eth0", index |-> 3, loopback |-> FALSE],
       [name |-> "ens3", index |-> 4, loopback |-> FALSE],
       [name |-> "wg0", index |-> 5, loopback |-> FALSE],
       [name |-> "tap0", index |-> 6, loopback |-> FALSE],
       [name |-> "dummy0", index |-> 7, loopback |-> FALSE],
       [name |-> "", index |-> 8, loopback |-> FALSE],
       NilAttrs >>

ClassIds == 1..Len(ClassLinks)

\* A route: is its destination nil or a zero-length prefix, and its LinkIndex.
Route(isDefault, index) == [dflt |-> isDefault, link |-> index]

\* Route tables (IPv4, IPv6) of the snapshots under study.
RouteSnapshots ==
    { [v4 |-> {Route(FALSE, 3)}, v6 |-> {}],
      [v4 |-> {Route(TRUE, 3), Route(FALSE, 2)}, v6 |-> {Route(TRUE, 0)}],
      [v4 |-> {Route(TRUE, 4), Route(TRUE, 6)}, v6 |-> {Route(TRUE, 7)}],
      [v4 |-> {Route(TRUE, 7), Route(FALSE, 4)}, v6 |-> {Route(TRUE, 4)}] }

\* fetchRoutes: the link indexes of the default routes of one family; a failed
\* RouteList contributes nothing.
fetchRoutes(routes, ok) ==
    IF ok THEN {r.link : r \in {x \in routes : x.dflt /\ x.link > 0}} ELSE {}

NoCall == [id |-> 0, ext |-> {}, class |-> "none"]

\* Seconds: the refresh interval of the classifier, and for the study of the
\* refresh alone the step of the clock and the time it runs to.
defaultExternalRefreshInterval == 30
ClockStep == 10
ClockHorizon == 70

NoRefresh == [outcome |-> "none", since |-> 0, listed |-> 0, failed |-> 0]

\* NewInterfaceClassifier: both caches empty, lastRefresh zero. The clock of
\* the behaviour (now, in seconds since the classifier was made) advances by
\* step up to horizon.
NewInterfaceClassifier(tables, step, horizon) ==
    [op |-> "Classify", routes |-> tables,
     externalLinkIndexes |-> {}, lastRefreshZero |-> TRUE, lastRefresh |-> 0,
     now |-> 0, step |-> step, horizon |-> horizon, refresh |-> NoRefresh,
     virtualCache |-> [n \in ClassNames |-> "unset"],
     returned |-> [i \in ClassIds |-> {}], calls |-> 0, call |-> NoCall]

ClassifierInputs ==
    {NewInterfaceClassifier(tables, defaultExternalRefreshInterval,
                            defaultExternalRefreshInterval) :
        tables \in RouteSnapshots}

RefreshInputs ==
    {NewInterfaceClassifier(tables, ClockStep, ClockHorizon) : tables \in RouteSnapshots}

\* isVirtualInterface's store into virtualCache when Classify gets that far.
CacheAfter(attrs, vcache) ==
    IF attrs = NilAttrs THEN vcache
    ELSE IF attrs.loopback \/ attrs.name = "" \/ hasInternalVirtualPrefix(attrs.name)
         THEN vcache
    ELSE IF vcache[attrs.name] /= "unset" THEN vcache
    ELSE [vcache EXCEPT ![attrs.name] =
             IF VirtualHardwareTable[attrs.name] THEN "yes" ELSE "no"]

\* One call of InterfaceClassifier.Classify.
ClassifyCall(i) ==
    /\ calc.op = "Classify"
    /\ calc.calls < MaxCalls
    /\ LET attrs == ClassLinks[i]
           class == Classify(attrs, calc.virtualCache, calc.externalLinkIndexes)
       IN  calc' = [calc EXCEPT
                       !.virtualCache = CacheAfter(attrs, @),
                       !.returned[i] = @ \cup {class},
                       !.calls = @ + 1,
                       !.call = [id |-> i, ext |-> calc.externalLinkIndexes,
                                 class |-> class]]
    /\ DaemonUnchanged

\* Time passes.
ClockTick ==
    /\ calc.op = "Classify"
    /\ calc.now + calc.step <= calc.horizon
    /\ calc' = [calc EXCEPT !.now = @ + calc.step]
    /\ DaemonUnchanged

\* A refresh that waits for more than one interval.
refreshDueLater(lastZero, since) == lastZero \/ since > defaultExternalRefreshInterval

\* RefreshExternalInterfaces goes on to list routes unless lastRefresh is set
\* and time.Since(last) < interval.
refreshDue(lastZero, since) == lastZero \/ ~(since < defaultExternalRefreshInterval)

\* One call of RefreshExternalInterfaces: skipped when the last refresh is
\* younger than the refresh interval; otherwise the cache is replaced by what
\* the two RouteList calls returned and lastRefresh becomes time.Now().
\* refresh.failed counts the RouteList calls of this call that failed.
RefreshExternalInterfaces ==
    /\ calc.op = "Classify"
    /\ \E ok4, ok6 \in BOOLEAN :
          LET since == calc.now - calc.lastRefresh
          IN  IF ~refreshDue(calc.lastRefreshZero, since)
              THEN calc' = [calc EXCEPT
                               !.refresh = [outcome |-> "skipped", since |-> since,
                                            listed |-> 0, failed |-> 0]]
              ELSE calc' = [calc EXCEPT
                               !.externalLinkIndexes =
                                   fetchRoutes(calc.routes.v4, ok4)
                                       \cup fetchRoutes(calc.routes.v6, ok6),
                               !.lastRefreshZero = FALSE,
                               !.lastRefresh = calc.now,
                               !.refresh = [outcome |-> "rebuilt", since |-> since,
                                            listed |-> 2,
                                            failed |-> (IF ok4 THEN 0 ELSE 1)
                                                       + (IF ok6 THEN 0 ELSE 1)]]
    /\ DaemonUnchanged

InitClassifier == InitDaemonIdle /\ calc \in ClassifierInputs

NextClassifier ==
    \/ \E i \in ClassIds : ClassifyCall(i)
    \/ RefreshExternalInterfaces
    \/ ClockTick

SpecClassifier == InitClassifier /\ [][NextClassifier]_vars

\* The refresh of the external-index cache on its own, under a finer clock.
InitRefresh == InitDaemonIdle /\ calc \in RefreshInputs

NextRefresh ==
    \/ RefreshExternalInterfaces
    \/ ClockTick

SpecRefresh == InitRefresh /\ [][NextRefresh]_vars

C15_ClassificationDeterminism ==
    calc.op = "Classify" => \A i \in ClassIds : Cardinality(calc.returned[i]) <= 1

\* ------------------------------------------------------------ signatures

\* Offload lists: the three settings of the worked example, and a list with
\* an alias, upper-case spellings and two features that normalise alike.
OffloadLists ==
    { << <<"rx", "on">>, <<"tx", "on">>, <<"gro", "off">> >>,
      << <<"rx-checksum", "on">>, <<"TX", "ON">>, <<"gro", "off">>, <<"rx", "on">> >> }

Reordered(list) ==
    {[i \in 1..Len(list) |-> list[f[i]]] : f \in Permutations(1..Len(list))}

QdiscPairs ==
    { [root |-> <<"cake", "unlimited", "besteffort">>, ifb |-> <<"cake", "unlimited", "diffserv4">>],
      [root |-> externalRootQdisc, ifb |-> externalIfbQdisc] }

SignatureInputs ==
    UNION {
        {[op |-> "makeSignature", done |-> FALSE, mtu |-> m, qlen |-> q,
          rootQdisc |-> t.root, ifbQdisc |-> t.ifb,
          offloads |-> a, reordered |-> b, out |-> "", outReordered |-> ""] :
            m \in {"1500", "65520"}, q \in {"10001"}, t \in QdiscPairs,
            a \in Reordered(list), b \in Reordered(list)} :
        list \in OffloadLists}

ProfileWith(root, ifb, offloads) ==
    [ queueLength |-> "", rootQdisc |-> root, ifbQdisc |-> ifb, offloads |-> offloads,
      mtuOverride |-> "" ]

\* makeSignature for the profile and for the profile with its offload list
\* in another order.
SignatureCall ==
    /\ Pending("makeSignature")
    /\ calc' = [calc EXCEPT
                    !.done = TRUE,
                    !.out = makeSignature(calc.mtu, calc.qlen,
                                ProfileWith(calc.rootQdisc, calc.ifbQdisc, calc.offloads)),
                    !.outReordered = makeSignature(calc.mtu, calc.qlen,
                                ProfileWith(calc.rootQdisc, calc.ifbQdisc, calc.reordered))]
    /\ DaemonUnchanged

InitSignature == InitDaemonIdle /\ calc \in SignatureInputs

SpecSignature == InitSignature /\ [][SignatureCall]_vars

NetlinkMutations == {"LinkSetMTU", "LinkSetTxQLen"}

C18_NoStepAfterCancellation ==
    \A w \in Workers : wk[w].late => cmdLog[wk[w].link.name] = <<>>

\* C20: the two done-channels are never closed twice, and both are closed
\* once Watch has ended, on whichever path.
C20_DoneChannelsClosedOnce ==
    /\ subs.linkDone <= 1
    /\ subs.addrDone <= 1
    /\ watchPc \in {"returned", "recovered"} => (subs.linkDone = 1 /\ subs.addrDone = 1)

C20_Witness ==
    /\ watchPc = "recovered"
    /\ subs.linkDone = 1
    /\ subs.addrDone = 1
    /\ ~cancelled /\ ~linkClosed /\ ~addrClosed

\* C21 as stated: a full subscription channel does not block the producer,
\* because the watcher keeps receiving also while a reapply pass is in
\* progress: a channel is never full while the watcher, instead of standing
\* at its select, is inside the pass applyPending started.
C21_FullChannelIsBeingReceived ==
    watchPc = "applying" => (Len(linkCh) < MaxChan /\ Len(addrCh) < MaxChan)

\* C22: a call of RefreshExternalInterfaces rebuilds the cache when it is the
\* first one or comes at least one refresh interval (30 s) after the previous
\* rebuild; an earlier call lists no routes and leaves the cached set and the
\* last-refresh time as they are; so two rebuilds are at least 30 s apart.
C22_RefreshInterval ==
    [][(calc.op = "Classify" /\ calc'.now = calc.now /\ calc' /= calc) =>
          LET since == calc.now - calc.lastRefresh
              due == calc.lastRefreshZero \/ since >= 30
          IN  /\ due =>
                    /\ calc'.refresh.outcome = "rebuilt"
                    /\ calc'.refresh.listed = 2
                    /\ ~calc'.lastRefreshZero
                    /\ calc'.lastRefresh = calc.now
                    /\ calc'.externalLinkIndexes \subseteq
                          {r.link : r \in calc.routes.v4 \cup calc.routes.v6}
              /\ ~due =>
                    /\ calc'.refresh.outcome = "skipped"
                    /\ calc'.refresh.listed = 0
                    /\ calc'.externalLinkIndexes = calc.externalLinkIndexes
                    /\ calc'.lastRefresh = calc.lastRefresh
                    /\ calc'.lastRefreshZero = calc.lastRefreshZero
              /\ (~calc.lastRefreshZero /\ calc'.lastRefresh /= calc.lastRefresh)
                    => calc'.lastRefresh - calc.lastRefresh >= 30]_vars

C22_Witness ==
    /\ calc.op = "Classify"
    /\ calc.refresh = [outcome |-> "rebuilt", since |-> 30, listed |-> 2, failed |-> 0]
    /\ calc.lastRefresh = 50
    /\ calc.externalLinkIndexes = {3}

\* C29 as stated: the changes a failed reapply pass had drained are not lost:
\* when applyPending returns to the watch loop after a pass that failed as a
\* whole (link listing error, timeout) or for some interfaces, the affected
\* interfaces are pending again, so that the next tick retries them without
\* a new netlink event.
C29_FailedReapplyStaysPending ==
    [][(watchPc = "applying" /\ watchPc' /= "applying") =>
          LET whole == passPc = "list" \/ deadline
          IN  /\ (whole /\ only.all) => pending'.all
              /\ (whole /\ ~only.all) => (pending'.all \/ only.names \subseteq pending'.names)
              /\ \A n \in LinkNames :
                    outcome[n] = "failed" => (pending'.all \/ n \in pending'.names)]_vars

\* The position of a command in the step sequence of configureProfile:
\* link params, root qdisc, ingress qdisc, ensure IFB, IFB root qdisc,
\* filter delete, filter add, offloads.
StepRank(cmd) ==
    CASE cmd = "LinkSetMTU" -> 1
      [] cmd = "LinkSetTxQLen" -> 2
      [] cmd = "tc qdisc replace root" -> 3
      [] cmd = "tc qdisc replace ingress" -> 4
      [] cmd = "ip link add" -> 5
      [] cmd = "ip link set qlen mtu" -> 6
      [] cmd = "ip link set up" -> 7
      [] cmd = "tc qdisc replace ifb root" -> 8
      [] cmd = "tc filter del" -> 9
      [] cmd = "tc filter add" -> 10
      [] cmd = "ethtool -k" -> 11
      [] cmd = "ethtool -K" -> 12

InStepOrder(log) ==
    \A i, j \in 1..Len(log) :
        i < j => \/ StepRank(log[i]) < StepRank(log[j])
                 \/ (log[i] = "ethtool -K" /\ log[j] = "ethtool -K")

\* C26: the commands issued for one interface in one pass follow the order
\* link params, root qdisc, ingress qdisc, ensure IFB, IFB root qdisc, filter
\* delete, filter add, offloads; and a command is issued for an interface
\* only while no step of its run has returned an error and the interface has
\* not been reported failed in this pass.
C26_StepOrder ==
    [][\A n \in LinkNames :
          /\ InStepOrder(cmdLog'[n])
          /\ (cmdLog'[n] /= cmdLog[n] /\ cmdLog'[n] /= <<>>) =>
                /\ outcome[n] /= "failed"
                /\ \E w \in Workers : /\ wk[w].pc \notin {"idle", "off"}
                                      /\ wk[w].link.name = n
                                      /\ wk[w].stepErrs = 0]_vars

\* A run that issued the commands up to the IFB's root qdisc, failed there
\* and issued nothing after it.
C26_Witness ==
    \E n \in LinkNames :
        /\ outcome[n] = "failed"
        /\ Len(cmdLog[n]) >= 3
        /\ cmdLog[n][Len(cmdLog[n])] = "tc qdisc replace ifb root"

\* C25 as stated: once all workers of a pass have finished, the pass is not
\* stuck: whatever the links did, applyToLinks can take its next step (the
\* summary of the error and stats channels, on to the pruning and the
\* return).
C25_SummaryNeverBlocks ==
    (/\ passPc \in {"workers", "rangeErrCh"}
     /\ \A w \in Workers : wk[w].pc \in {"off", "exited"}) => ENABLED ApplyToLinksNext

\* C30 as stated: an interface is skipped only when it has the queue
\* length of its profile, which a newly created interface gets from the
\* link-parameter step of its first full configuration.
C30_RecreatedInterfaceReconfigured ==
    \A n \in ChurnLinks :
        outcome[n] = "skipped" =>
            kernel[n].qlen = AtoiVal(QueueLength(kernel[n], ProfileOf("externalPhysical")))

\* C27 as stated: an interface is skipped only when the most recent run of
\* its step sequence completed every step.
C27_SkipOnlyAfterSuccessfulRun ==
    \A n \in LinkNames : outcome[n] = "skipped" => lastRun[n] = "ok"

\* C33: pending is Idle, SpecificNames or All: all set means no names. A
\* link update received in state All changes nothing; one without a name
\* moves any state to All; one with a name, outside All, adds the name; and
\* the drain of applyPending leaves Idle.
C33_PendingStateMachine ==
    [][/\ pending'.all => pending'.names = {}
       /\ (linkCh /= <<>> /\ linkCh' = Tail(linkCh)) =>
             LET name == Head(linkCh).name
             IN  /\ pending.all => pending' = pending
                 /\ name = "" => pending' = [all |-> TRUE, names |-> {}]
                 /\ (~pending.all /\ name /= "") =>
                       pending' = [all |-> FALSE, names |-> pending.names \cup {name}]
       /\ (watchPc = "snapshotted" /\ watchPc' = "applying") => pending' = NoPending]_vars

\* State All at the select, with two named updates and one without a name
\* received since the last drain.
C33_Witness ==
    /\ watchPc = "select"
    /\ pending = [all |-> TRUE, names |-> {}]
    /\ recorded.unres
    /\ recorded.cnt["lo"] >= 2

\* C36: a pass whose link listing fails returns from the listing: nothing
\* was dispatched or issued, the kernel, the applied signatures and the
\* initial-cleanup flag are as before; when the pass is Shaper.Apply's,
\* Daemon.Run returns and the watcher is never started.
C36_ListFailureAbortsPass ==
    [][/\ (passPc = "list" /\ passPc' = "idle") =>
             /\ kernel' = kernel
             /\ appliedSignatures' = appliedSignatures
             /\ didInitialCleanup' = didInitialCleanup
             /\ \A n \in LinkNames : taken[n] = 0 /\ cmdLog[n] = <<>>
             /\ passCaller = "main" => (runPc' = "returned" /\ watchPc' = "notStarted")
             /\ passCaller = "watch" => loopErrs'
       /\ (runPc = "returned" /\ watchPc = "notStarted") => watchPc' = "notStarted"]_vars

\* Daemon.Run has returned because the first LinkList failed.
C36_Witness ==
    /\ runPc = "returned"
    /\ watchPc = "notStarted"
    /\ passPc = "idle"
    /\ failures = 1
    /\ ~didInitialCleanup
    /\ ~cancelled

\* C37 as stated: a call of RefreshExternalInterfaces in which the route
\* listing of a family failed leaves the cached external link indexes and the
\* time of the last refresh as they were.
C37_FailedRefreshKeepsCache ==
    [][(/\ calc.op = "Classify"
        /\ calc'.now = calc.now
        /\ calc' /= calc
        /\ calc'.refresh.failed > 0) =>
          /\ calc'.externalLinkIndexes = calc.externalLinkIndexes
          /\ calc'.lastRefresh = calc.lastRefresh
          /\ calc'.lastRefreshZero = calc.lastRefreshZero]_vars

\* C34: the initial cleanup belongs to the first pass that gets past its
\* link listing: that pass sets didInitialCleanup, which is never reset; a
\* pass that finds it set issues no cleanup command (nothing fails, no
\* device is removed while it prepares); and whatever the cleanup's commands
\* do, the pass goes on to its workers or its pruning.
C34_InitialCleanupOnce ==
    [][/\ didInitialCleanup => didInitialCleanup'
       /\ didInitialCleanup' /= didInitialCleanup => passPc = "prepare"
       /\ (passPc = "prepare" /\ passPc' /= "prepare") =>
             /\ didInitialCleanup'
             /\ passPc' \in {"workers", "prune"}
             /\ didInitialCleanup => (kernel' = kernel /\ failures' = failures)
             /\ \A n \in LinkNames :
                   kernel'[n] /= kernel[n] =>
                       \E t \in CleanupTargets(passLinks) : n = ifbNameOf(t)]_vars

\* A reapply pass on the host with the bridge, after the first pass removed
\* the bridge's IFB: it has prepared without cleaning up again.
C34_Witness ==
    /\ passCaller = "watch"
    /\ passPc = "workers"
    /\ didInitialCleanup
    /\ kernel["br0"].exists
    /\ ~kernel["ifb4br0"].exists
    /\ failures = 0

\* The values configureProfile derives for a link do not pass
\* parseProfileParameters' checks, stated from the claim's ranges.
InvalidParameters(link) ==
    LET class == Classify(link, virtualCache, externalLinkIndexes)
        mtuStr == MtuStr(link, ProfileOf(class))
        queueLength == QueueLength(link, ProfileOf(class))
    IN  /\ class \in ProfileClasses
        /\ \/ ~AtoiOk(mtuStr)
           \/ AtoiVal(mtuStr) < 68 \/ AtoiVal(mtuStr) > 65535
           \/ ~AtoiOk(queueLength)
           \/ AtoiVal(queueLength) < 1 \/ AtoiVal(queueLength) > 1000000

\* C35: when a worker takes a link that is to be processed and whose desired
\* MTU or queue length is invalid, that step ends the link with an error on
\* errCh, issues no command, changes nothing in the kernel and leaves the
\* recorded signatures as they were; and up to the end of the pass no command
\* is logged for such a link and no signature is recorded for it.
C35_ValidationFailureNoSideEffect ==
    [][/\ \A w \in Workers :
            (/\ passPc = "workers" /\ workCh /= <<>> /\ workCh' = Tail(workCh)
             /\ wk[w].pc = "idle" /\ wk'[w] /= wk[w]
             /\ shouldProcessLink(Head(workCh), only)
             /\ InvalidParameters(Head(workCh))) =>
                /\ wk'[w].pc = "idle"
                /\ wk'[w].failed = wk[w].failed + 1
                /\ errCh' = Append(errCh, Head(workCh).name)
                /\ outcome'[Head(workCh).name] = "failed"
                /\ kernel' = kernel
                /\ failures' = failures
                /\ cmdLog' = cmdLog
                /\ appliedSignatures' = appliedSignatures
       /\ \A i \in 1..Len(passLinks) :
            (passPc \in {"workers", "prune"} /\ InvalidParameters(passLinks[i])) =>
                /\ cmdLog[passLinks[i].name] = <<>>
                /\ appliedSignatures[passLinks[i].name] = NoSig]_vars

\* The pass is past its workers, the interface with the MTU just outside the
\* range was taken and failed, and the loopback device was configured.
C35_Witness ==
    /\ passPc = "prune"
    /\ kernel["eth0"].mtu = MaxMTU + 1
    /\ outcome["eth0"] = "failed"
    /\ outcome["lo"] = "ok"
    /\ cmdLog["eth0"] = <<>>
    /\ failures = 0

\* The position of Daemon.Run in its code.
RunRank(pc) ==
    CASE pc = "sysctl" -> 1
      [] pc = "limits" -> 2
      [] pc = "rlimit" -> 3
      [] pc = "apply" -> 4
      [] pc = "applying" -> 5
      [] pc = "startWatch" -> 6
      [] pc = "wait" -> 7
      [] pc = "returned" -> 8

\* C38: Daemon.Run moves through sysctl, limits, rlimit and the traffic Apply
\* in that order or returns; an applier's Apply is called only at its own
\* stage, and the traffic Apply only after every applier the daemon has was
\* called and none failed; a stage's error makes Run return with nothing
\* started after it; the watcher starts only after the first pass returned
\* without a listing error; and Run returns from its wait only after the
\* watcher has returned.
C38_RunStageOrder ==
    [][/\ runPc' /= runPc =>
            \/ RunRank(runPc') = RunRank(runPc) + 1
            \/ runPc' = "returned"
       /\ calc'.stages /= calc.stages =>
            \E i \in 1..Len(Stages) :
                /\ runPc = Stages[i]
                /\ calc.appliers[i]
                /\ calc'.stages = Append(calc.stages, Stages[i])
       /\ (runPc = "apply" /\ runPc' = "applying") =>
            /\ calc.err = ""
            /\ calc.stages = SelectSeq(Stages,
                                 LAMBDA st : \E i \in 1..Len(Stages) :
                                                Stages[i] = st /\ calc.appliers[i])
       /\ calc'.err /= calc.err =>
            /\ calc.err = ""
            /\ runPc' = "returned"
            /\ calc'.stages = Append(calc.stages, calc'.err)
       /\ calc.err /= "" =>
            /\ runPc' = "returned" /\ calc' = calc
            /\ passPc' = "idle" /\ watchPc' = "notStarted"
            /\ kernel' = kernel
       /\ (watchPc = "notStarted" /\ watchPc' /= "notStarted") => runPc = "startWatch"
       /\ (runPc = "applying" /\ runPc' = "startWatch") =>
            passCaller = "main" /\ passPc = "prune"
       /\ (runPc = "wait" /\ runPc' = "returned") =>
            watchPc \in {"returned", "recovered"}]_vars

\* Run has returned after a cancellation, with the three appliers called in
\* order, the first pass done and the watcher started and returned.
C38_Witness ==
    /\ runPc = "returned"
    /\ calc.op = "Run"
    /\ calc.stages = Stages
    /\ calc.err = ""
    /\ cancelled
    /\ watchPc = "returned"
    /\ subs.once
    /\ appliedSignatures["lo"] /= NoSig

\* Run has returned the error of the limits stage: sysctl and limits were
\* called, nothing else was.
C38_WitnessStageError ==
    /\ runPc = "returned"
    /\ calc.op = "Run"
    /\ calc.stages = <<"sysctl", "limits">>
    /\ calc.err = "limits"
    /\ passPc = "idle"

\* strings.Fields for lines whose only white space is the space character.
RECURSIVE FieldsFrom(_, _, _)
FieldsFrom(s, i, cur) ==
    IF i > Len(s) THEN (IF cur = "" THEN <<>> ELSE <<cur>>)
    ELSE IF SubSeq(s, i, i) = " "
    THEN (IF cur = "" THEN <<>> ELSE <<cur>>) \o FieldsFrom(s, i + 1, "")
    ELSE FieldsFrom(s, i + 1, cur \o SubSeq(s, i, i))

Fields(s) == FieldsFrom(s, 1, "")

\* The tokens cleanRouteLine drops together with the token after them.
ValueKeywords == {"mtu", "initcwnd", "initrwnd", "fastopen_no_cookie"}

\* A cleanRouteLine loop that leaves the congestion control alone.
RECURSIVE cleanKeepsCongctl(_, _)
cleanKeepsCongctl(tokens, i) ==
    IF i > Len(tokens) THEN <<>>
    ELSE IF tokens[i] \in ValueKeywords
    THEN cleanKeepsCongctl(tokens, IF i + 1 <= Len(tokens) THEN i + 2 ELSE i + 1)
    ELSE <<tokens[i]>> \o cleanKeepsCongctl(tokens, i + 1)

\* cleanRouteLine's loop from token i on (i counts from 1): the tokens it
\* appends to result.
RECURSIVE cleanTokens(_, _)
cleanTokens(tokens, i) ==
    IF i > Len(tokens) THEN <<>>
    ELSE IF tokens[i] \in ValueKeywords
    THEN cleanTokens(tokens, IF i + 1 <= Len(tokens) THEN i + 2 ELSE i + 1)
    ELSE IF tokens[i] = "congctl" /\ i + 2 <= Len(tokens) /\ tokens[i + 1] = "lock"
    THEN cleanTokens(tokens, i + 3)
    ELSE <<tokens[i]>> \o cleanTokens(tokens, i + 1)

cleanRouteLine(line) == Join(cleanTokens(Fields(line), 1), " ")

\* The tokens of the route lines under study and their greatest number.
RouteTokens == {"dev", "mtu", "initcwnd", "congctl", "lock", "cubic"}
MaxTokens == 5

RECURSIVE TokenSeqs(_)
TokenSeqs(n) ==
    IF n = 0 THEN {<<>>}
    ELSE {<<>>} \cup {<<t>> \o r : t \in RouteTokens, r \in TokenSeqs(n - 1)}

\* The parameters of the optimizer's jobs: with a congestion control, and
\* optimizeNIC's when it found none to set.
RouteParams == {newParams(1500, 10, 10, "cubic"), newParams(1500, 10, 10, "")}

RouteLineInputs ==
    {[op |-> "cleanRouteLine", done |-> FALSE, line |-> Join(ts, " "), params |-> p,
      out |-> "", again |-> "", reapplied |-> ""] :
        ts \in TokenSeqs(MaxTokens), p \in RouteParams}

\* One round of applyRoutes on a route: the line is cleaned; `ip route change
\* <cleaned line> <params>` makes the route the cleaned line followed by the
\* parameters, which the next round cleans (reapplied); again is the cleaned
\* line cleaned once more.
CleanRouteLineCall ==
    /\ Pending("cleanRouteLine")
    /\ LET out == cleanRouteLine(calc.line)
       IN  calc' = [calc EXCEPT
                        !.done = TRUE,
                        !.out = out,
                        !.again = cleanRouteLine(out),
                        !.reapplied = cleanRouteLine(Join(Fields(out) \o args(calc.params), " "))]
    /\ DaemonUnchanged

InitRouteLine == InitDaemonIdle /\ calc \in RouteLineInputs

SpecRouteLine == InitRouteLine /\ [][CleanRouteLineCall]_vars

\* The keywords of the parameters the optimizer appends.
ParamKeywords == ValueKeywords \cup {"congctl"}

\* The positions of the groups the optimizer may have appended to a line:
\* a value keyword and the token after it, congctl lock and the token after.
GroupPositions(tokens) ==
    UNION { IF tokens[i] \in ValueKeywords /\ i + 1 <= Len(tokens) THEN {i, i + 1}
            ELSE IF /\ tokens[i] = "congctl" /\ i + 2 <= Len(tokens)
                    /\ tokens[i + 1] = "lock"
            THEN {i, i + 1, i + 2}
            ELSE {} : i \in 1..Len(tokens) }

\* tokens without the tokens at the given positions.
RECURSIVE Without(_, _, _)
Without(tokens, positions, i) ==
    IF i > Len(tokens) THEN <<>>
    ELSE (IF i \in positions THEN <<>> ELSE <<tokens[i]>>) \o Without(tokens, positions, i + 1)

\* A line as `ip route show` prints parameters: every parameter keyword, and
\* every lock, is followed by a token that is not a parameter keyword.
WellFormedLine(tokens) ==
    \A i \in 1..Len(tokens) :
        tokens[i] \in ParamKeywords \cup {"lock"} =>
            i + 1 <= Len(tokens) /\ tokens[i + 1] \notin ParamKeywords

\* What the claim says of one cleaned line.
CleansExactly(c) ==
    /\ c.out = Join(Without(Fields(c.line), GroupPositions(Fields(c.line)), 1), " ")
    /\ c.again = c.out
    /\ c.reapplied = c.out

isVirtualName(name) ==
    \/ name = ""
    \/ \E prefix \in {"docker", "br-", "veth", "lo"} : HasPrefix(name, prefix)

\* extractDevice for one line: the field after the first "dev" that has a
\* field after it.
extractDevice(line) ==
    LET fields == Fields(line)
        at == {i \in 1..(Len(fields) - 1) : fields[i] = "dev"}
    IN  IF at = {} THEN [ok |-> FALSE, device |-> ""]
        ELSE [ok |-> TRUE, device |-> fields[(CHOOSE i \in at : \A j \in at : i <= j) + 1]]

\* The first element of a sequence of names that is not "", or "".
RECURSIVE FirstName(_)
FirstName(names) ==
    IF names = <<>> THEN ""
    ELSE IF Head(names) /= "" THEN Head(names)
    ELSE FirstName(Tail(names))

\* A route of the IPv4 table: default or not, the name of its device ("" for
\* a route without a device) and whether its link is down. RouteList gives it
\* with Dst nil for a default route and the device's index, which
\* safeGetLinkAttrs resolves to the name; `ip route show` prints it as a line.
TableRoutes ==
    [dflt : BOOLEAN, dev : {"eth0", "wg0", "docker0", "lo", ""}, linkdown : BOOLEAN]

RouteLineOf(r) ==
    (IF r.dflt THEN "default via 10.0.0.1" ELSE "10.0.0.0/24")
    \o (IF r.dev /= "" THEN " dev " \o r.dev ELSE "")
    \o (IF r.linkdown THEN " linkdown" ELSE "")

\* getPrimaryNICFromNetlink: "" stands for its error.
getPrimaryNICFromNetlink(routes, ok) ==
    IF ~ok THEN ""
    ELSE LET first == FirstName([i \in 1..Len(routes) |->
                          IF routes[i].dflt THEN routes[i].dev ELSE ""])
             second == FirstName([i \in 1..Len(routes) |->
                          IF isVirtualName(routes[i].dev) THEN "" ELSE routes[i].dev])
         IN  IF first /= "" THEN first ELSE second

\* A getPrimaryNICFromCommand whose second scan looks at routes with a link
\* that is down as well.
getPrimaryNICFromCommandAnyLink(lines, ok) ==
    IF ~ok THEN ""
    ELSE LET first == FirstName([i \in 1..Len(lines) |->
                          IF HasPrefix(lines[i], "default ")
                          THEN extractDevice(lines[i]).device ELSE ""])
             second == FirstName([i \in 1..Len(lines) |->
                          LET d == extractDevice(lines[i])
                          IN  IF ~d.ok \/ d.device = "lo" \/ isVirtualName(d.device)
                              THEN "" ELSE d.device])
         IN  IF first /= "" THEN first ELSE second

\* getPrimaryNICFromCommand on the lines of `ip route show` (ok: the command
\* succeeded): "" stands for its error.
getPrimaryNICFromCommand(lines, ok) ==
    IF ~ok THEN ""
    ELSE LET first == FirstName([i \in 1..Len(lines) |->
                          IF HasPrefix(lines[i], "default ")
                          THEN extractDevice(lines[i]).device ELSE ""])
             second == FirstName([i \in 1..Len(lines) |->
                          LET d == extractDevice(lines[i])
                          IN  IF \/ Contains(lines[i], "linkdown")
                                 \/ ~d.ok \/ d.device = "lo" \/ isVirtualName(d.device)
                              THEN "" ELSE d.device])
         IN  IF first /= "" THEN first ELSE second

\* getPrimaryNIC: netlink is "nil" (no handle), "fails" or "ok".
getPrimaryNIC(routes, netlink, cmdOk) ==
    LET nic == IF netlink = "nil" THEN ""
               ELSE getPrimaryNICFromNetlink(routes, netlink = "ok")
    IN  IF nic /= "" THEN nic
        ELSE getPrimaryNICFromCommand([i \in 1..Len(routes) |-> RouteLineOf(routes[i])], cmdOk)

\* The greatest number of routes in the tables under study.
MaxRoutes == 2

RECURSIVE RouteTables(_)
RouteTables(n) ==
    IF n = 0 THEN {<<>>}
    ELSE {<<>>} \cup {<<r>> \o t : r \in TableRoutes, t \in RouteTables(n - 1)}

PrimaryNICInputs ==
    {[op |-> "getPrimaryNIC", done |-> FALSE, routes |-> t, netlink |-> n, cmdOk |-> c,
      nic |-> ""] :
        t \in RouteTables(MaxRoutes), n \in {"nil", "fails", "ok"}, c \in BOOLEAN}

GetPrimaryNICCall ==
    /\ Pending("getPrimaryNIC")
    /\ calc' = [calc EXCEPT !.done = TRUE,
                            !.nic = getPrimaryNIC(calc.routes, calc.netlink, calc.cmdOk)]
    /\ DaemonUnchanged

InitPrimaryNIC == InitDaemonIdle /\ calc \in PrimaryNICInputs

SpecPrimaryNIC == InitPrimaryNIC /\ [][GetPrimaryNICCall]_vars

\* The claim's two-stage rule on a route table: the device of the first
\* default route that has one; if there is none, the first device whose name
\* is non-empty and starts with none of docker, br-, veth, lo; else "".
TwoStageRule(routes) ==
    LET defaults == {i \in 1..Len(routes) : routes[i].dflt /\ routes[i].dev /= ""}
        others == {i \in 1..Len(routes) :
                      /\ routes[i].dev /= ""
                      /\ \A p \in {"docker", "br-", "veth", "lo"} : ~HasPrefix(routes[i].dev, p)}
        Least(S) == CHOOSE i \in S : \A j \in S : i <= j
    IN  IF defaults /= {} THEN routes[Least(defaults)].dev
        ELSE IF others /= {} THEN routes[Least(others)].dev
        ELSE ""

\* C40: whenever the route table can be read, through netlink or through
\* `ip route show`, the primary NIC is the one the two-stage rule gives for
\* the table, and detection fails only when the rule finds no device; when
\* neither can be read it fails.
C40_PrimaryNIC ==
    (calc.op = "getPrimaryNIC" /\ calc.done) =>
        calc.nic = (IF calc.netlink = "ok" \/ calc.cmdOk
                    THEN TwoStageRule(calc.routes) ELSE "")

\* C40 where netlink reads the table: the fallback is not needed unless the
\* rule finds nothing.
C40_PrimaryNICNetlink ==
    (calc.op = "getPrimaryNIC" /\ calc.done /\ calc.netlink = "ok") =>
        calc.nic = TwoStageRule(calc.routes)

\* A default route over wg0 listed after a route over eth0: wg0 is returned.
C40_Witness ==
    /\ calc.op = "getPrimaryNIC" /\ calc.done
    /\ calc.netlink = "ok"
    /\ Len(calc.routes) = 2
    /\ calc.routes[1].dev = "eth0" /\ ~calc.routes[1].dflt
    /\ calc.routes[2].dev = "wg0" /\ calc.routes[2].dflt
    /\ calc.nic = "wg0"

\* ------------------------------------------------------------ startup

\* Daemon.Run is past the first pass's LinkList and the watcher's
\* subscriptions do not exist yet.
BetweenListAndSubscribe ==
    \/ runPc = "applying" /\ passPc \notin {"idle", "list"}
    \/ runPc = "startWatch"
    \/ runPc = "wait" /\ watchPc = "setup"

\* An interface is created then. LinkSubscribeWithOptions is called with
\* ListExisting: false, so the subscription made later reports nothing of it.
EnvLinkAppears ==
    /\ BetweenListAndSubscribe
    /\ \E n \in ChurnLinks :
        /\ ~kernel[n].exists
        /\ kernel' = [kernel EXCEPT ![n] = NewLink]
    /\ UNCHANGED linkCh
    /\ ChurnFrame

InitStartup ==
    /\ InitShaper
    /\ failures = 0
    /\ kernel = InitKernel(WatchHost)
    /\ track = [st |-> "off", name |-> ""]
    /\ calc = NoCalc

\* The daemon from its start to a running watcher, with an interface that
\* may appear during the start or, reported, later.
NextStartup ==
    \/ RunApply
    \/ RunStartWatch
    \/ PassNext
    \/ WatchSetup
    \/ RecvLink
    \/ ApplyTickRecv
    \/ ApplyPendingClear
    \/ EnvApplyTick
    \/ EnvLinkAppears
    \/ EnvLinkBack

SpecStartup == InitStartup /\ [][NextStartup]_vars

\* The watcher waits at its select with no update queued, nothing pending and
\* no tick due: only a further event makes it run a pass.
WatcherAtRest ==
    /\ watchPc = "select"
    /\ passPc = "idle"
    /\ linkCh = <<>> /\ addrCh = <<>>
    /\ pending = NoPending
    /\ ~applyTick

C31_Witness ==
    /\ WatcherAtRest /\ failures = 0
    /\ kernel["eth0"].exists
    /\ appliedSignatures["eth0"] /= NoSig
    /\ kernel["ifb4eth0"].up

\* ------------------------------------------------------------ quiescence

\* Everything but the kernel, subs.links and the kernel's account of what it
\* has reported (calc) stays.
NetlinkFrame ==
    UNCHANGED <<failures, cancelled, appliedSignatures, didInitialCleanup,
                externalLinkIndexes, virtualCache, lastRefreshZero,
                running, passPc, passCaller, only, passLinks, requiredIfbs,
                workCh, wk, errCh, statsCh, passResult,
                runPc, watchPc, addrCh, linkClosed, addrClosed,
                applyTick, pending, snap,
                taken, cfgRuns, cmdLog, outcome, lastRun, pre, recorded, track,
                loopErrs, optimizeErr, deadline, subs>>

\* The link subscription stands (ListExisting: false): the kernel reports
\* what changes from here on. calc.seen holds each link as last reported.
NetlinkSubscribed ==
    /\ calc.op = "netlink"
    /\ ~calc.synced
    /\ watchPc = "select"
    /\ calc' = [calc EXCEPT !.synced = TRUE, !.seen = kernel]
    /\ DaemonUnchanged

\* The kernel reports on subs.links a link the daemon has changed (an IFB it
\* created or set up, an MTU or queue length it set).
EnvOwnUpdate ==
    /\ calc.op = "netlink"
    /\ calc.synced
    /\ Observes
    /\ ~linkClosed
    /\ Len(linkCh) < MaxChan
    /\ \E n \in LinkNames :
        /\ kernel[n] /= calc.seen[n]
        /\ linkCh' = Append(linkCh, [name |-> n, mark |-> FALSE])
        /\ calc' = [calc EXCEPT !.seen[n] = kernel[n]]
    /\ UNCHANGED kernel
    /\ NetlinkFrame

\* The one external change: an interface is created and reported.
EnvLinkCreated ==
    /\ calc.op = "netlink"
    /\ calc.synced
    /\ watchPc = "select"
    /\ ~linkClosed
    /\ Len(linkCh) < MaxChan
    /\ \E n \in ChurnLinks :
        /\ ~kernel[n].exists
        /\ appliedSignatures[n] = NoSig
        /\ kernel' = [kernel EXCEPT ![n] = NewLink]
        /\ linkCh' = Append(linkCh, [name |-> n, mark |-> FALSE])
        /\ calc' = [calc EXCEPT !.seen[n] = NewLink]
    /\ NetlinkFrame

\* No command fails: the failure budget is spent from the start.
InitQuiet ==
    /\ InitShaper
    /\ failures = MaxFailures
    /\ \E host \in {WatchHost, ChurnHost} : kernel = InitKernel(host)
    /\ track = [st |-> "off", name |-> ""]
    /\ calc = [op |-> "netlink", synced |-> FALSE, seen |-> kernel]

NextQuiet ==
    \/ RunApply
    \/ RunStartWatch
    \/ PassNext
    \/ WatchSetup
    \/ NetlinkSubscribed
    \/ RecvLink
    \/ ApplyTickRecv
    \/ ApplyPendingClear
    \/ EnvApplyTick
    \/ EnvOwnUpdate
    \/ EnvLinkCreated

\* Every goroutine of the daemon that can take a step does, the select of
\* watchLoop takes each ready case in the end, the ticker ticks and the
\* kernel delivers what it has to report. Nothing makes the one external
\* change happen.
SpecQuiet ==
    /\ InitQuiet
    /\ [][NextQuiet]_vars
    /\ WF_vars(RunApply)
    /\ WF_vars(RunStartWatch)
    /\ WF_vars(PassNext)
    /\ WF_vars(WatchSetup)
    /\ WF_vars(NetlinkSubscribed)
    /\ WF_vars(RecvLink)
    /\ WF_vars(ApplyTickRecv)
    /\ WF_vars(ApplyPendingClear)
    /\ WF_vars(EnvApplyTick)
    /\ WF_vars(EnvOwnUpdate)

\* The reconciler is at its fixed point: the watcher waits at its select, no
\* pass runs, no update is queued or still to be reported, nothing is pending.
Quiescent ==
    /\ watchPc = "select"
    /\ passPc = "idle"
    /\ linkCh = <<>>
    /\ pending = NoPending
    /\ calc.synced
    /\ \A n \in LinkNames : kernel[n] = calc.seen[n]

\* A link that a pass found configured (its signature recorded, its IFB
\* present and up) is skipped by that pass, with no command issued for it.
ConfiguredLinksSkipped ==
    \A n \in LinkNames :
        pre[n] = "yes" => (outcome[n] \in {"none", "skipped"} /\ cmdLog[n] = <<>>)

====
